---- MODULE Spec2Model ----
(***************************************************************************)
(* A model of the BlueST SDK (blue_st_sdk): the firmware-upload protocol   *)
(* of firmware_upgrade_nucleo.py over the debug console of                 *)
(* debug_console.py, the transport lock discipline of node.py and the      *)
(* listener dispatch of feature.py.                                        *)
(***************************************************************************)
EXTENDS Integers, Sequences, FiniteSets, TLC

(***************************************************************************)
(* Program constants.                                                      *)
(***************************************************************************)
MAX_MSG_SIZE == 16
BLOCK_OF_PACKETS_SIZE == 10
MAXIMUM_MESSAGE_SIZE_BYTES == 20

(***************************************************************************)
(* Bounds of the model.                                                    *)
(***************************************************************************)
MaxFileSize == 176

VARIABLES
    consoles,         \* FirmwareUpgradeNucleo objects returned by get_console
    fuListeners,      \* FirmwareUpgrade._listeners of each console
    consoleListener,  \* FirmwareUpgradeNucleo._debug_console_listener (0 = None)
    dcListeners,      \* DebugConsole._listeners of the node's debug console
    up,               \* the FirmwareUpgradeDebugConsoleListener built by each console
    pc,               \* position of the thread running the console callbacks
    dispIdx,          \* index of the for loop of on_update_characteristic
    msg,              \* message being dispatched by on_update_characteristic
    cur,              \* listener whose on_stdout_receive is sending blocks
    pkt,              \* index of the for loop of _send_block
    notif,            \* notification status written for the stdin/out characteristic
    exc,              \* exception that left the console callback or the
                      \* upgrade_firmware call of the last step
    fw_ret            \* console and return value of the upgrade_firmware call
                      \* of the last step (NoCall otherwise)

fwVars == <<consoles, fuListeners, consoleListener, dcListeners, up,
            pc, dispIdx, msg, cur, pkt, notif, exc, fw_ret>>

VARIABLES
    tpc,              \* position of each application thread in a Node operation
    top,              \* the Node operation each thread is running
    lockOwner         \* thread holding the lock of the Node ("none" = free)

lockVars == <<tpc, top, lockOwner>>

VARIABLES
    listeners,        \* Feature._listeners of each feature
    loggers,          \* Feature._loggers of each feature
    fpc,              \* position of the thread that delivers notifications
    fIdx,             \* index in the features of the notified characteristic
    lIdx,             \* index in the listeners or loggers of that feature
    last_sample,      \* Feature._last_sample: number of the notification
    notifSeq,         \* notifications delivered so far
    invoked,          \* calls of each callback for the current notification
    ranOn,            \* threads that ran a callback for this notification
    poolQueue,        \* items submitted to the thread pool and not yet taken
    fexc,             \* exception that left handleNotification
    registered,       \* listeners each feature had when its update asked
                      \* for their notification, less those removed since
    changes           \* listener changes made while the current notification
                      \* is being handled

featVars == <<listeners, loggers, fpc, fIdx, lIdx, last_sample, notifSeq,
              invoked, ranOn, poolQueue, fexc, registered, changes>>

VARIABLES
    device,           \* what the device exports: per characteristic handle the
                      \* feature mask of its UUID and its properties, and
                      \* whether it has the debug service
    advMask,          \* feature mask of the advertising data
    status,           \* Node._status
    nexc,             \* exception that left the last Node operation
    charFeatures,     \* Node._update_char_handle_to_features_dict
    characteristic,   \* Feature._characteristic of each feature (0 = None)
    is_enabled,       \* Feature._is_enabled of each feature
    is_notifying,     \* Feature._notify of each feature
    cccd,             \* notification state of each characteristic on the device
    io,               \* transport calls made by the last Node operation
    failed,           \* the last Node operation met a transport failure
    notifyOn,         \* features whose enable_notifications wrote ON in this
                      \* connection and that were not disabled since
    lastOp,           \* the last Node operation and the feature it was given
    nret              \* what the last connect, disconnect, enable_notifications
                      \* or disable_notifications returned ("None" after the
                      \* other operations)

nodeVars == <<device, advMask, status, nexc, charFeatures, characteristic,
              is_enabled, is_notifying, cccd, io, failed, notifyOn, lastOp,
              nret>>

VARIABLES
    update_dict,      \* Node._update_char_handle_to_features_dict of the
                      \* decoding node (<<>> = no entry for the handle)
    unwrapper,        \* Node._unwrap_timestamp: _last_timestamp, _reset_times
    dec_status,       \* Node._status of the decoding node
    dec_sample,       \* Feature._last_sample of each feature
    dec_notified,     \* listener calls made for each feature
    dec_logged,       \* logger calls made for each feature
    dec_seq,          \* notifications handled so far
    dec_last,         \* handle and payload of the last notification
    dec_log,          \* extract_data calls of the last notification, in order
    dec_exc,          \* exception that left the last handleNotification
    dec_warned,       \* the last handleNotification logged a warning
    dec_short         \* an earlier notification was too short for a feature

decVars == <<update_dict, unwrapper, dec_status, dec_sample, dec_notified,
             dec_logged, dec_seq, dec_last, dec_log, dec_exc, dec_warned,
             dec_short>>

VARIABLES
    features_decoder_dic,   \* blue_st_sdk Manager._features_decoder_dic
    legacy_decoder_dic,     \* BlueSTSDK Manager.features_decoder_dic
    mgr_op,                 \* the last Manager operation and its arguments
    mgr_exc                 \* exception that left the last Manager operation

mgrVars == <<features_decoder_dic, legacy_decoder_dic, mgr_op, mgr_exc>>

VARIABLES
    uw,               \* an UnwrapTimestamp: _last_timestamp, _reset_times
    uw_before,        \* the same before the last unwrap call
    uw_raw,           \* argument of the last unwrap call
    uw_ret,           \* value returned by the last unwrap call
    uw_prev_ret,      \* value returned by the call before it (-1 = none)
    uw_calls,         \* unwrap calls made on this unwrapper
    uw_genuine        \* so far the raw timestamp went down only right after
                      \* a value above NEAR_TO_END_TH

uwVars == <<uw, uw_before, uw_raw, uw_ret, uw_prev_ret, uw_calls, uw_genuine>>

VARIABLES
    adv_in,           \* the advertising data of the last scan entry parsed
    adv_out,          \* what BlueSTAdvertisingDataParser.parse made of it
    adv_node          \* the Node built from the scan entry, if any

advVars == <<adv_in, adv_out, adv_node>>

VARIABLES
    discovered_nodes, \* Manager._discovered_nodes: tag and advertising data
    is_scanning,      \* Manager._is_scanning
    scan_alive,       \* the scan of the discovery is running
    node_discovered,  \* tags given to on_node_discovered, in order
    disc_last,        \* the last scan entry given to handleDiscovery
    disc_exc,         \* exception that left the last handleDiscovery
    disc_parsed,      \* addresses whose advertising data parsed in this
                      \* discovery
    disc_invalid,     \* advertising data failed to parse in this discovery
    disc_seq          \* scan entries handled in this discovery

discVars == <<discovered_nodes, is_scanning, scan_alive, node_discovered,
              disc_last, disc_exc, disc_parsed, disc_invalid, disc_seq>>

VARIABLES
    current_crc,  \* STM32Crc32._current_crc, eight hexadecimal digits
    crc_op,       \* the last operation
    crc_in,       \* its input: the data, or the content of the file
    crc_exc,      \* the exception it raised
    crc_ret,      \* the value get_crc_32 returned
    crc_before,   \* _current_crc before the last operation
    crc_updates   \* calls of update since the last reset

crcVars == <<current_crc, crc_op, crc_in, crc_exc, crc_ret, crc_before,
             crc_updates>>

VARIABLES
    sc_is_scanning,   \* Manager._is_scanning
    stop_called,      \* _StoppableScanner._stop_called is set
    process_done,     \* _StoppableScanner._process_done is set
    sc_exc,           \* _StoppableScanner._exc: "unset" while the attribute
                      \* does not exist, "None", or "exc_info"
    thread_pc,        \* the position of the scanner thread
    caller_pc,        \* the position of the thread calling the Manager
    sc_result,        \* how the last call of the Manager ended
    sc_stop_requested,\* stop_discovery was called on this discovery
    sc_after_stop     \* scanner.process calls begun after that call

scanVars == <<sc_is_scanning, stop_called, process_done, sc_exc, thread_pc,
              caller_pc, sc_result, sc_stop_requested, sc_after_stop>>

VARIABLES
    rm_nodes,     \* Manager._discovered_nodes: tag and connection of each Node
    rm_scanning,  \* Manager._is_scanning
    rm_op,        \* the last operation
    rm_before     \* the node list when that operation was called

rmVars == <<rm_nodes, rm_scanning, rm_op, rm_before>>

VARIABLES
    st_is_scanning,    \* Manager._is_scanning
    st_pc,             \* position of each calling thread in discover or
                       \* start_discovery
    st_kind,           \* the method each calling thread is in
    st_ret,            \* what its last call returned
    st_scans,          \* scans running: in discover, or in a scanner thread
    st_sync_scans,     \* of these, the scans running inside discover
    st_notifications,  \* statuses given to on_discovery_change, in order
    st_cleared_running,\* the node list was cleared while a discovery ran
    st_accepted        \* calls that passed the test of is_discovering()

startVars == <<st_is_scanning, st_pc, st_kind, st_ret, st_scans, st_sync_scans,
               st_notifications, st_cleared_running, st_accepted>>

VARIABLES
    ad_is_scanning, \* Manager._is_scanning
    ad_caller_pc,   \* position of each thread calling start_discovery
    ad_alive,       \* the scanner threads that run
    ad_current,     \* Manager._scanner_thread (0 = none)
    ad_list,        \* identity of the list object in _discovered_nodes
    ad_nodes,       \* tags of the nodes in that list, in order
    ad_lock,        \* holder of the lock of each list object (0 = free)
    ad_pc,          \* position of each scanner thread in handleDiscovery
    ad_entry,       \* address of the scan entry it handles
    ad_copy,        \* its copy of the node list
    ad_locked       \* the list object whose lock it took in _add_node

addVars == <<ad_is_scanning, ad_caller_pc, ad_alive, ad_current, ad_list,
             ad_nodes, ad_lock, ad_pc, ad_entry, ad_copy, ad_locked>>

VARIABLES
    av_chars,      \* the characteristics of the device, in the order
                   \* getCharacteristics returns them: the kind of their UUID
    av_external,   \* Node._external_uuid_to_features_dic is not empty
    av_features,   \* Node._available_features: the class of each feature
    av_status,     \* Node._status
    av_first,      \* _available_features after the first successful connect
    av_connects    \* successful connects so far

avVars == <<av_chars, av_external, av_features, av_status, av_first,
            av_connects>>

vars == <<fwVars, lockVars, featVars, nodeVars, decVars, mgrVars, uwVars, advVars, discVars, crcVars, scanVars, rmVars, startVars, addVars, avVars>>

notFwVars == <<lockVars, featVars, nodeVars, decVars, mgrVars, uwVars, advVars, discVars, crcVars, scanVars, rmVars, startVars, addVars, avVars>>
notLockVars == <<fwVars, featVars, nodeVars, decVars, mgrVars, uwVars, advVars, discVars, crcVars, scanVars, rmVars, startVars, addVars, avVars>>
notFeatVars == <<fwVars, lockVars, nodeVars, decVars, mgrVars, uwVars, advVars, discVars, crcVars, scanVars, rmVars, startVars, addVars, avVars>>
notNodeVars == <<fwVars, lockVars, featVars, decVars, mgrVars, uwVars, advVars, discVars, crcVars, scanVars, rmVars, startVars, addVars, avVars>>
notDecVars == <<fwVars, lockVars, featVars, nodeVars, mgrVars, uwVars, advVars, discVars, crcVars, scanVars, rmVars, startVars, addVars, avVars>>
notMgrVars == <<fwVars, lockVars, featVars, nodeVars, decVars, uwVars, advVars, discVars, crcVars, scanVars, rmVars, startVars, addVars, avVars>>
notUwVars == <<fwVars, lockVars, featVars, nodeVars, decVars, mgrVars, advVars, discVars, crcVars, scanVars, rmVars, startVars, addVars, avVars>>
notAdvVars == <<fwVars, lockVars, featVars, nodeVars, decVars, mgrVars, uwVars, discVars, crcVars, scanVars, rmVars, startVars, addVars, avVars>>
notDiscVars == <<fwVars, lockVars, featVars, nodeVars, decVars, mgrVars, uwVars, advVars, crcVars, scanVars, rmVars, startVars, addVars, avVars>>
notCrcVars == <<fwVars, lockVars, featVars, nodeVars, decVars, mgrVars, uwVars, advVars, discVars, scanVars, rmVars, startVars, addVars, avVars>>
notScanVars == <<fwVars, lockVars, featVars, nodeVars, decVars, mgrVars, uwVars, advVars, discVars, crcVars, rmVars, startVars, addVars, avVars>>
notRmVars == <<fwVars, lockVars, featVars, nodeVars, decVars, mgrVars, uwVars, advVars, discVars, crcVars, scanVars, startVars, addVars, avVars>>
notStartVars == <<fwVars, lockVars, featVars, nodeVars, decVars, mgrVars, uwVars, advVars, discVars, crcVars, scanVars, rmVars, addVars, avVars>>
notAddVars == <<fwVars, lockVars, featVars, nodeVars, decVars, mgrVars, uwVars, advVars, discVars, crcVars, scanVars, rmVars, startVars, avVars>>
notAvVars == <<fwVars, lockVars, featVars, nodeVars, decVars, mgrVars, uwVars, advVars, discVars, crcVars, scanVars, rmVars, startVars, addVars>>

(***************************************************************************)
(* Byte-level helpers.                                                     *)
(***************************************************************************)
Min(a, b) == IF a < b THEN a ELSE b

\* LittleEndian.uint32_to_bytes: struct.pack("<Q", value)[0:4], the four low
\* bytes, least significant first (the values of the model are below 2^31)
uint32_to_bytes(value) ==
    [i \in 1..4 |-> (value \div (256^(i - 1))) % 256]

\* DebugConsole._decode_data: ISO-8859-1 maps byte b to code point b
decode_data(data) == [i \in 1..Len(data) |-> data[i] % 256]

\* str.encode('ISO-8859-1') of a string of code points below 256
encode(message) == [i \in 1..Len(message) |-> message[i] % 256]

\* str.lower() on one code point of the Latin-1 range
LowerChar(c) ==
    IF c \in 65..90 \/ (c \in 192..222 /\ c # 215) THEN c + 32 ELSE c

lower(message) == [i \in 1..Len(message) |-> LowerChar(message[i])]

ACK_MSG == <<1>>

FIRMWARE_UPGRADE_COMMAND == <<117, 112, 103, 114, 97, 100, 101, 70, 119>>

\* the command frame built by load_file
Command(size, crc) ==
    FIRMWARE_UPGRADE_COMMAND \o uint32_to_bytes(size) \o uint32_to_bytes(crc)

\* number of writeCharacteristic calls DebugConsole.write makes for n bytes
Chunks(n) ==
    (n + MAXIMUM_MESSAGE_SIZE_BYTES - 1) \div MAXIMUM_MESSAGE_SIZE_BYTES

(***************************************************************************)
(* Inputs.                                                                 *)
(***************************************************************************)
\* the firmware-upgrade consoles the application obtains for the node
ConsoleIds == {1, 2}
UserListeners == {"u"}

\* no upgrade_firmware call in the last step
NoCall == <<0, "None">>

\* what load_file does with the file: it starts the upload, or get_crc_32
\* or open raise
PrepareOutcomes == {"none", "OSError", "ValueError"}

\* firmware files: the size and the CRC32 of the content
FirmwareFiles ==
    {[size |-> 0, crc |-> 1],
     [size |-> 40, crc |-> 305419896],
     [size |-> MaxFileSize, crc |-> 1]}

\* messages of the device on the stdout characteristic
Messages == {ACK_MSG, <<0>>} \cup {uint32_to_bytes(f.crc) : f \in FirmwareFiles}

\* a FirmwareUpgradeDebugConsoleListener that does not exist; the fields after
\* packets_received record what the transport and the user's listeners saw
NoUpload ==
    [size |-> 0, crc |-> 0, status |-> "NONE",
     bytes_sent |-> 0, packets_received |-> 0,
     handed |-> 0, blocks |-> 0,
     nErr |-> 0, lastErr |-> "NONE",
     nComplete |-> 0, completeBytes |-> 0, completeMsg |-> <<>>,
     nProgress |-> 0,
     crcMismatch |-> FALSE, readFailed |-> FALSE, writeFailed |-> FALSE]

InList(s, x) == \E i \in 1..Len(s) : s[i] = x

Remove(s, x) == SelectSeq(s, LAMBDA y : y # x)

(***************************************************************************)
(* DebugConsole: the listener list and the notification status it writes.  *)
(***************************************************************************)
\* DebugConsole.remove_listener: the list after the call
dc_remove_listener(lst, listener) ==
    IF listener # 0 /\ InList(lst, listener) THEN Remove(lst, listener) ELSE lst

\* DebugConsole.add_listener: the list after the call
dc_add_listener(lst, listener) ==
    IF listener # 0 /\ ~InList(lst, listener) THEN Append(lst, listener) ELSE lst

\* the notification status left by remove_listener(old); add_listener(new)
dc_notification_status(old, new) ==
    LET removed == dc_remove_listener(dcListeners, old)
        afterRemove == IF old # 0 /\ removed = <<>> THEN FALSE ELSE notif
    IN  IF new # 0 THEN TRUE ELSE afterRemove

\* FirmwareUpgradeNucleo._firmware_is_upgrading
firmware_is_upgrading(c) == consoleListener[c] # 0

\* FirmwareUpgradeNucleo._set_listener
set_listener(c, listener) ==
    /\ dcListeners' = dc_add_listener(
                          dc_remove_listener(dcListeners, consoleListener[c]),
                          listener)
    /\ notif' = dc_notification_status(consoleListener[c], listener)
    /\ consoleListener' = [consoleListener EXCEPT ![c] = listener]

(***************************************************************************)
(* FirmwareUpgradeDebugConsoleListener: the callbacks to the user's        *)
(* listeners.  k is the number of listeners registered on the console.     *)
(***************************************************************************)
\* _on_load_error: the loop over the user's listeners
notify_error(r, error, k) ==
    [r EXCEPT !.nErr = @ + k,
              !.lastErr = IF k > 0 THEN error ELSE @]

\* _on_load_complete: the loop over the user's listeners
notify_complete(r, k, message) ==
    [r EXCEPT !.nComplete = @ + k,
              !.completeBytes = IF k > 0 THEN r.bytes_sent ELSE @,
              !.completeMsg = IF k > 0 THEN message ELSE @]

\* _get_block_size
get_block_size == BLOCK_OF_PACKETS_SIZE

\* a variant of progress_due that fires one packet late
progress_due_late(n) == n % get_block_size = 1

\* the condition under which _on_load_progress calls the user's listeners
progress_due(n) == n % get_block_size = 0

\* _on_load_progress
on_load_progress(r, k) ==
    LET n == r.packets_received + 1
    IN  [r EXCEPT !.packets_received = n,
                  !.nProgress = IF progress_due(n) THEN @ + k ELSE @]

\* on_stdin_send with status True, the only status DebugConsole.write passes
on_stdin_send(r, k) ==
    IF r.status = "ACK_CHECK" THEN on_load_progress(r, k) ELSE r

\* DebugConsole.on_write_characteristic: one call of on_stdin_send on each
\* listener of the debug console
on_write_characteristic(upf, lst) ==
    [l \in ConsoleIds |->
        IF InList(lst, l)
        THEN on_stdin_send(upf[l], Len(fuListeners[l]))
        ELSE upf[l]]

\* DebugConsole.write: the callbacks of the n chunks written
RECURSIVE write(_, _, _)
write(upf, lst, n) ==
    IF n = 0 THEN upf ELSE write(on_write_characteristic(upf, lst), lst, n - 1)

\* a variant of size_to_read that ignores the end of the file
size_to_read_full(r) == MAX_MSG_SIZE

\* _send_block: the number of bytes to read from the file
size_to_read(r) == Min(r.size - r.bytes_sent, MAX_MSG_SIZE)

\* on_stdout_receive: the comparison of the echo with the CRC sent
crc_differs(message, r) == encode(message) # uint32_to_bytes(r.crc)

\* on_stdout_receive: the test for the acknowledgement message
is_ack(message) == lower(message) = lower(ACK_MSG)

\* a listener object nothing refers to any more is dropped when the callback
\* that was running it returns
Collect(upf, lst, cl) ==
    [l \in ConsoleIds |->
        IF InList(lst, l) \/ cl[l] # 0 THEN upf[l] ELSE NoUpload]

(***************************************************************************)
(* Firmware upload: initial state.                                         *)
(***************************************************************************)
FwInit ==
    /\ consoles = {}
    /\ fuListeners = [c \in ConsoleIds |-> <<>>]
    /\ consoleListener = [c \in ConsoleIds |-> 0]
    /\ dcListeners = <<>>
    /\ up = [l \in ConsoleIds |-> NoUpload]
    /\ pc = "idle"
    /\ dispIdx = 0
    /\ msg = <<>>
    /\ cur = 0
    /\ pkt = 0
    /\ notif = FALSE
    /\ exc = "none"
    /\ fw_ret = NoCall

(***************************************************************************)
(* Firmware upload: operations.                                            *)
(***************************************************************************)
\* FirmwareUpgradeNucleo.get_console on a node that has a debug console
get_console ==
    /\ pc = "idle"
    /\ consoles # ConsoleIds
    /\ consoles' = consoles \cup {Cardinality(consoles) + 1}
    /\ exc' = "none"
    /\ fw_ret' = NoCall
    /\ UNCHANGED notFwVars
    /\ UNCHANGED <<fuListeners, consoleListener, dcListeners, up,
                   pc, dispIdx, msg, cur, pkt, notif>>

\* FirmwareUpgrade.add_listener; the application registers its listeners
\* on a console while no upload of that console is in progress
add_listener(c, u) ==
    /\ pc = "idle"
    /\ c \in consoles
    /\ ~firmware_is_upgrading(c)
    /\ fuListeners' = [fuListeners EXCEPT ![c] =
                          IF InList(@, u) THEN @ ELSE Append(@, u)]
    /\ exc' = "none"
    /\ fw_ret' = NoCall
    /\ UNCHANGED notFwVars
    /\ UNCHANGED <<consoles, consoleListener, dcListeners, up,
                   pc, dispIdx, msg, cur, pkt, notif>>

\* load_file: the state of a new FirmwareUpgradeDebugConsoleListener
load_file(c, f) ==
    [NoUpload EXCEPT !.size = f.size, !.crc = f.crc,
                     !.status = "CRC_CHECK"]

\* FirmwareUpgradeNucleo.upgrade_firmware
upgrade_firmware(c, f, outcome) ==
    /\ pc = "idle"
    /\ c \in consoles
    /\ IF firmware_is_upgrading(c)
       THEN /\ UNCHANGED <<consoleListener, dcListeners, notif, up>>
            /\ exc' = "none"
            /\ fw_ret' = <<c, "False">>
       ELSE /\ set_listener(c, c)
            /\ IF outcome = "none"
               THEN /\ up' = write([up EXCEPT ![c] = load_file(c, f)],
                                   dcListeners',
                                   Chunks(Len(Command(f.size, f.crc))))
                    /\ exc' = "none"
                    /\ fw_ret' = <<c, "True">>
               ELSE \* load_file raises before it sets the loading status
                    /\ up' = [up EXCEPT ![c] = NoUpload]
                    /\ exc' = outcome
                    /\ fw_ret' = <<c, "None">>
    /\ UNCHANGED notFwVars
    /\ UNCHANGED <<consoles, fuListeners, pc, dispIdx, msg, cur, pkt>>

\* DebugConsole.on_update_characteristic for the stdin/out characteristic:
\* entry of the loop over the listeners
on_update_characteristic(data) ==
    /\ pc = "idle"
    /\ Len(dcListeners) # 0
    /\ pc' = "dispatch"
    /\ dispIdx' = 1
    /\ msg' = decode_data(data)
    /\ exc' = "none"
    /\ fw_ret' = NoCall
    /\ UNCHANGED notFwVars
    /\ UNCHANGED <<consoles, fuListeners, consoleListener, dcListeners, up,
                   cur, pkt, notif>>

\* one iteration of the loop of on_update_characteristic: on_stdout_receive
\* of the next listener, up to the start of its block loop
on_stdout_receive ==
    /\ pc = "dispatch"
    /\ IF dispIdx > Len(dcListeners)
       THEN /\ pc' = "idle"
            /\ dispIdx' = 0
            /\ msg' = <<>>
            /\ up' = Collect(up, dcListeners, consoleListener)
            /\ UNCHANGED <<consoleListener, dcListeners, cur, pkt, notif,
                           exc>>
       ELSE LET l == dcListeners[dispIdx]
                r == up[l]
                k == Len(fuListeners[l])
            IN  IF r.status = "NONE"
                THEN \* _loading_file_status was never assigned: reading it
                     \* raises AttributeError, which leaves
                     \* on_update_characteristic
                     /\ exc' = "AttributeError"
                     /\ pc' = "idle"
                     /\ dispIdx' = 0
                     /\ msg' = <<>>
                     /\ up' = Collect(up, dcListeners, consoleListener)
                     /\ UNCHANGED <<consoleListener, dcListeners, cur, pkt,
                                    notif>>
                ELSE
                IF r.status = "CRC_CHECK"
                THEN /\ IF crc_differs(msg, r)
                        THEN /\ up' = [up EXCEPT ![l] =
                                   [notify_error(
                                        [r EXCEPT !.crcMismatch = TRUE],
                                        "TRANSMISSION_ERROR", k)
                                    EXCEPT !.status = "ACK_CHECK",
                                           !.packets_received = 0]]
                             /\ set_listener(l, 0)
                        ELSE /\ up' = [up EXCEPT ![l] =
                                   [r EXCEPT !.status = "ACK_CHECK",
                                             !.packets_received = 0]]
                             /\ UNCHANGED <<consoleListener, dcListeners, notif>>
                     /\ pc' = "sending"
                     /\ cur' = l
                     /\ pkt' = 0
                     /\ UNCHANGED <<dispIdx, msg, exc>>
                ELSE /\ up' = [up EXCEPT ![l] =
                                  IF is_ack(msg)
                                  THEN notify_complete(r, k, msg)
                                  ELSE notify_error(r, "CORRUPTED_FILE_ERROR", k)]
                     /\ set_listener(l, 0)
                     /\ dispIdx' = dispIdx + 1
                     /\ UNCHANGED <<pc, msg, cur, pkt, exc>>
    /\ fw_ret' = NoCall
    /\ UNCHANGED notFwVars
    /\ UNCHANGED <<consoles, fuListeners>>

\* the while loop of on_stdout_receive and the for loop of _send_block: one
\* packet, or the end of the while loop
send_block ==
    /\ pc = "sending"
    /\ LET l == cur
           r == up[l]
           k == Len(fuListeners[l])
           n == size_to_read(r)
           sent == [r EXCEPT !.bytes_sent = @ + n, !.handed = @ + n]
       IN  IF pkt = 0 /\ ~(r.size - r.bytes_sent > 0)
           THEN \* the while loop ends
                /\ pc' = "dispatch"
                /\ dispIdx' = dispIdx + 1
                /\ cur' = 0
                /\ UNCHANGED <<consoleListener, dcListeners, up, msg, pkt,
                               notif, exc>>
           ELSE \/ \* the read raises or returns fewer bytes than requested
                   /\ n > 0
                   /\ up' = [up EXCEPT ![l] =
                                notify_error([r EXCEPT !.readFailed = TRUE],
                                             "CORRUPTED_FILE_ERROR", k)]
                   /\ set_listener(l, 0)
                   /\ pc' = "dispatch"
                   /\ dispIdx' = dispIdx + 1
                   /\ cur' = 0
                   /\ pkt' = 0
                   /\ UNCHANGED <<msg, exc>>
                \/ \* the characteristic write raises BTLEException, which
                   \* leaves on_stdout_receive and on_update_characteristic
                   /\ n > 0
                   /\ up' = Collect(
                          [up EXCEPT ![l] = [sent EXCEPT !.writeFailed = TRUE]],
                          dcListeners, consoleListener)
                   /\ exc' = "BTLEException"
                   /\ pc' = "idle"
                   /\ dispIdx' = 0
                   /\ msg' = <<>>
                   /\ cur' = 0
                   /\ pkt' = 0
                   /\ UNCHANGED <<consoleListener, dcListeners, notif>>
                \/ \* the packet is written
                   /\ LET upw == write([up EXCEPT ![l] = sent], dcListeners,
                                       Chunks(n))
                      IN  up' = IF pkt + 1 = get_block_size
                                THEN [upw EXCEPT ![l].blocks = @ + 1]
                                ELSE upw
                   /\ pkt' = (pkt + 1) % get_block_size
                   /\ UNCHANGED <<consoleListener, dcListeners, pc, dispIdx,
                                  msg, cur, notif, exc>>
    /\ fw_ret' = NoCall
    /\ UNCHANGED notFwVars
    /\ UNCHANGED <<consoles, fuListeners>>

FwNext ==
    \/ get_console
    \/ \E c \in ConsoleIds, u \in UserListeners : add_listener(c, u)
    \/ \E c \in ConsoleIds, f \in FirmwareFiles, outcome \in PrepareOutcomes :
           upgrade_firmware(c, f, outcome)
    \/ \E data \in Messages : on_update_characteristic(data)
    \/ on_stdout_receive
    \/ send_block

(***************************************************************************)
(* Firmware upload: properties.                                            *)
(***************************************************************************)
Registered(l) == Len(fuListeners[l]) > 0

\* C1: when the device's CRC echo differs from the CRC sent, the upload
\* fails and no firmware byte is written for it: bytes_sent stays 0.
C1_NoBytesAfterCrcMismatch ==
    \A l \in ConsoleIds :
        up[l].crcMismatch =>
            /\ Registered(l) => up[l].nErr >= 1
            /\ up[l].bytes_sent = 0
            /\ up[l].handed = 0

\* C2: one upload delivers at most one terminal callback (completion or
\* error) to a registered listener.
C2_TerminatesOnce ==
    \A l \in ConsoleIds : up[l].nErr + up[l].nComplete <= 1

\* C3: at most one upload of the device is in progress at a time, over all
\* the consoles obtained for the node.
C3_OneActiveUpload ==
    Cardinality({c \in ConsoleIds : firmware_is_upgrading(c)}) <= 1

\* C4: bytes_sent never exceeds the size of the firmware file and counts
\* exactly the bytes handed to the write of the debug console.
C4_BytesSentBounded ==
    \A l \in ConsoleIds :
        /\ up[l].bytes_sent <= up[l].size
        /\ up[l].bytes_sent = up[l].handed

\* C4: a file of more than one block has been sent to its last byte.
C4_Witness ==
    \E l \in ConsoleIds :
        /\ up[l].status = "ACK_CHECK"
        /\ up[l].size = MaxFileSize
        /\ up[l].bytes_sent = up[l].size
        /\ up[l].blocks >= 2

\* C5: a completion callback answers an ACK message received after all the
\* bytes of the file have been sent, and reports bytes_sent equal to the size
\* of the file.
C5_CompleteAfterAllSent ==
    \A l \in ConsoleIds :
        up[l].nComplete > 0 =>
            /\ is_ack(up[l].completeMsg)
            /\ up[l].completeBytes = up[l].size

C7_FailuresReported ==
    /\ exc # "BTLEException"
    /\ \A l \in ConsoleIds :
           (up[l].crcMismatch \/ up[l].readFailed \/ up[l].writeFailed) =>
               /\ Registered(l) => up[l].nErr >= 1
               /\ ~firmware_is_upgrading(l)


\* an upload of console c has been started by load_file and none of its
\* completion or error callbacks has run
upload_in_progress(c) ==
    /\ up[c].status \in {"CRC_CHECK", "ACK_CHECK"}
    /\ up[c].nErr = 0
    /\ up[c].nComplete = 0

\* C35: upgrade_firmware is rejected (returns False) only while an upload of
\* that console is actually in progress; in particular a call that follows
\* an upload ended by a completion or error callback, or a call that raised
\* OSError or ValueError while preparing the file, is accepted.
C35_AcceptedWhenNoUpload ==
    \A c \in ConsoleIds :
        fw_ret = <<c, "False">> => upload_in_progress(c)

(***************************************************************************)
(* The transport of a Node and the lock of the Node.                       *)
(* A thread enters an operation ("waiting"), runs its transport call       *)
(* ("io") and returns ("idle").                                            *)
(***************************************************************************)
Threads == {"t1", "t2", "t3"}

\* lock(node) of python_utils: the thread may enter "with lock(self)"
lock(t) == lockOwner \in {"none", t}

LockInit ==
    /\ tpc = [t \in Threads |-> "idle"]
    /\ top = [t \in Threads |-> "none"]
    /\ lockOwner = "none"

\* a thread calls an operation of the Node or of its debug console
call(t, op) ==
    /\ tpc[t] = "idle"
    /\ tpc' = [tpc EXCEPT ![t] = "waiting"]
    /\ top' = [top EXCEPT ![t] = op]
    /\ UNCHANGED notLockVars
    /\ UNCHANGED lockOwner

\* "with lock(self): <transport call>": the lock is taken and the call starts
locked_io(t, op) ==
    /\ tpc[t] = "waiting"
    /\ top[t] = op
    /\ lock(t)
    /\ lockOwner' = t
    /\ tpc' = [tpc EXCEPT ![t] = "io"]
    /\ UNCHANGED notLockVars
    /\ UNCHANGED top

\* a transport call made without entering "with lock(self)"
unlocked_io(t, op) ==
    /\ tpc[t] = "waiting"
    /\ top[t] = op
    /\ tpc' = [tpc EXCEPT ![t] = "io"]
    /\ UNCHANGED notLockVars
    /\ UNCHANGED <<top, lockOwner>>

\* Node.connect: super().connect under the lock
connect(t) == locked_io(t, "connect")

\* Node.disconnect: super().disconnect under the lock
disconnect(t) == locked_io(t, "disconnect")

\* Node.read_feature: readCharacteristic under the lock
read_feature(t) == locked_io(t, "read_feature")

\* Node.write_feature: writeCharacteristic under the lock
write_feature(t) == locked_io(t, "write_feature")

\* Node.set_notification_status: writeCharacteristic under the lock
set_notification_status(t) == locked_io(t, "set_notification_status")

\* Node.wait_for_notifications: waitForNotifications under the lock
wait_for_notifications(t) == locked_io(t, "wait_for_notifications")

\* DebugConsole.write: self._node.writeCharacteristic, called by load_file
\* and _send_block, outside any "with lock"
debug_console_write(t) == unlocked_io(t, "debug_console_write")

\* the transport call returns; leaving "with lock(self)" frees the lock
io_return(t) ==
    /\ tpc[t] = "io"
    /\ tpc' = [tpc EXCEPT ![t] = "idle"]
    /\ top' = [top EXCEPT ![t] = "none"]
    /\ lockOwner' = IF lockOwner = t THEN "none" ELSE lockOwner
    /\ UNCHANGED notLockVars

NodeOps ==
    {"connect", "disconnect", "read_feature", "write_feature",
     "set_notification_status", "wait_for_notifications",
     "debug_console_write"}

LockNext ==
    \/ \E t \in Threads, op \in NodeOps : call(t, op)
    \/ \E t \in Threads : connect(t)
    \/ \E t \in Threads : disconnect(t)
    \/ \E t \in Threads : read_feature(t)
    \/ \E t \in Threads : write_feature(t)
    \/ \E t \in Threads : set_notification_status(t)
    \/ \E t \in Threads : wait_for_notifications(t)
    \/ \E t \in Threads : debug_console_write(t)
    \/ \E t \in Threads : io_return(t)

\* C8: every transport operation on the Node runs while its thread holds the
\* lock of the Node, so no two of them run at the same time.
C8_TransportSerialized ==
    /\ \A t \in Threads : tpc[t] = "io" => lockOwner = t
    /\ Cardinality({t \in Threads : tpc[t] = "io"}) <= 1

(***************************************************************************)
(* Feature updates: Node._update_features, Feature.update and the dispatch *)
(* of the sample to the listeners and loggers of each feature.             *)
(***************************************************************************)
MaxNotifications == 2

\* listener changes followed while one notification is being handled
MaxChanges == 1

\* the features exported by the notified characteristic, in mask order
Features == <<"F1", "F2">>
FeatureIds == {Features[i] : i \in 1..Len(Features)}
FeatureListeners == {"L1", "L2"}
FeatureLoggers == {"G1"}
Callbacks == FeatureListeners \cup FeatureLoggers

\* what a user callback does when it is called
Outcomes == {"returns", "raises", "blocks"}

NotInvoked == [f \in FeatureIds |-> [cb \in Callbacks |-> 0]]

FeatInit ==
    /\ listeners = [f \in FeatureIds |-> <<>>]
    /\ loggers = [f \in FeatureIds |-> <<>>]
    /\ fpc = "idle"
    /\ fIdx = 0
    /\ lIdx = 0
    /\ last_sample = [f \in FeatureIds |-> 0]
    /\ notifSeq = 0
    /\ invoked = NotInvoked
    /\ ranOn = {}
    /\ poolQueue = 0
    /\ fexc = "none"
    /\ registered = [f \in FeatureIds |-> <<>>]
    /\ changes = 0

\* "with lock(self)" of a feature can be entered: Feature.update is not
\* inside its own "with lock(self)" block
feature_lock_free == fpc # "extract"

\* a listener change counts when it is made while a notification is handled
count_change ==
    /\ fpc # "idle" => changes < MaxChanges
    /\ changes' = IF fpc = "idle" THEN changes ELSE changes + 1

\* Feature.add_listener, called by any thread or by a running callback
Feature_add_listener(f, l) ==
    /\ feature_lock_free
    /\ ~InList(listeners[f], l)
    /\ count_change
    /\ listeners' = [listeners EXCEPT ![f] = Append(@, l)]
    /\ UNCHANGED notFeatVars
    /\ UNCHANGED <<loggers, fpc, fIdx, lIdx, last_sample, notifSeq, invoked,
                   ranOn, poolQueue, fexc, registered>>

\* Feature.remove_listener, called by any thread or by a running callback
Feature_remove_listener(f, l) ==
    /\ feature_lock_free
    /\ InList(listeners[f], l)
    /\ count_change
    /\ listeners' = [listeners EXCEPT ![f] = Remove(@, l)]
    /\ registered' = [registered EXCEPT ![f] = Remove(@, l)]
    /\ UNCHANGED notFeatVars
    /\ UNCHANGED <<loggers, fpc, fIdx, lIdx, last_sample, notifSeq, invoked,
                   ranOn, poolQueue, fexc>>

\* Feature.add_logger
Feature_add_logger(f, g) ==
    /\ fpc = "idle"
    /\ ~InList(loggers[f], g)
    /\ loggers' = [loggers EXCEPT ![f] = Append(@, g)]
    /\ UNCHANGED notFeatVars
    /\ UNCHANGED <<listeners, fpc, fIdx, lIdx, last_sample, notifSeq, invoked,
                   ranOn, poolQueue, fexc, registered, changes>>

\* NodeDelegate.handleNotification: a notification of a feature
\* characteristic enters Node._update_features
handleNotification ==
    /\ fpc = "idle"
    /\ notifSeq < MaxNotifications
    /\ notifSeq' = notifSeq + 1
    /\ fpc' = "update"
    /\ fIdx' = 1
    /\ invoked' = NotInvoked
    /\ ranOn' = {}
    /\ fexc' = "none"
    /\ registered' = [f \in FeatureIds |-> <<>>]
    /\ changes' = 0
    /\ UNCHANGED notFeatVars
    /\ UNCHANGED <<listeners, loggers, lIdx, last_sample, poolQueue>>

\* Node._update_features: next feature of the loop, or the end of the loop
update_features ==
    /\ fpc = "update"
    /\ IF fIdx > Len(Features)
       THEN /\ fpc' = "idle"
            /\ fIdx' = 0
            /\ UNCHANGED last_sample
       ELSE \* Feature.update: the sample is extracted and stored under the
            \* lock of the feature
            /\ last_sample' = [last_sample EXCEPT ![Features[fIdx]] = notifSeq]
            /\ fpc' = "extract"
            /\ UNCHANGED fIdx
    /\ UNCHANGED notFeatVars
    /\ UNCHANGED <<listeners, loggers, lIdx, notifSeq, invoked, ranOn,
                   poolQueue, fexc, registered, changes>>

\* Feature.update: the "with lock(self)" block is left and _notify_update
\* starts its loop over self._listeners
update ==
    /\ fpc = "extract"
    /\ fpc' = "notify"
    /\ lIdx' = 1
    /\ registered' = [registered EXCEPT ![Features[fIdx]] = listeners[Features[fIdx]]]
    /\ UNCHANGED notFeatVars
    /\ UNCHANGED <<listeners, loggers, fIdx, last_sample, notifSeq, invoked,
                   ranOn, poolQueue, fexc, changes>>

\* the thread on which the argument of ThreadPoolExecutor.submit is computed
callback_thread == "caller"

\* self._thread_pool.submit(callback(...)): the call is evaluated by the
\* calling thread; what it returns is then handed to the pool
submit_call(f, cb, outcome) ==
    /\ invoked' = [invoked EXCEPT ![f][cb] = @ + 1]
    /\ ranOn' = ranOn \cup {callback_thread}
    /\ CASE outcome = "returns" ->
              /\ poolQueue' = poolQueue + 1
              /\ lIdx' = lIdx + 1
              /\ UNCHANGED <<fpc, fIdx, fexc>>
         [] outcome = "raises" ->
              \* nothing between the callback and the transport catches it
              /\ fexc' = "Exception"
              /\ fpc' = "idle"
              /\ fIdx' = 0
              /\ lIdx' = 0
              /\ UNCHANGED poolQueue
         [] outcome = "blocks" ->
              /\ fpc' = "blocked"
              /\ UNCHANGED <<fIdx, lIdx, poolQueue, fexc>>

\* Feature._notify_update: one iteration of the loop over the listeners
notify_update ==
    /\ fpc = "notify"
    /\ LET f == Features[fIdx]
       IN  IF lIdx > Len(listeners[f])
           THEN /\ fpc' = "log"
                /\ lIdx' = 1
                /\ UNCHANGED <<fIdx, invoked, ranOn, poolQueue, fexc>>
           ELSE \E outcome \in Outcomes :
                    submit_call(f, listeners[f][lIdx], outcome)
    /\ UNCHANGED notFeatVars
    /\ UNCHANGED <<listeners, loggers, last_sample, notifSeq, registered,
                   changes>>

\* Feature._log_update: one iteration of the loop over the loggers; after
\* the last one Feature.update returns to the loop of _update_features
log_update ==
    /\ fpc = "log"
    /\ LET f == Features[fIdx]
       IN  IF lIdx > Len(loggers[f])
           THEN /\ fpc' = "update"
                /\ fIdx' = fIdx + 1
                /\ lIdx' = 0
                /\ UNCHANGED <<invoked, ranOn, poolQueue, fexc>>
           ELSE \E outcome \in Outcomes :
                    submit_call(f, loggers[f][lIdx], outcome)
    /\ UNCHANGED notFeatVars
    /\ UNCHANGED <<listeners, loggers, last_sample, notifSeq, registered,
                   changes>>

\* a worker of the ThreadPoolExecutor takes a submitted item: it is the
\* value a callback returned, and calling it runs no callback
pool_worker ==
    /\ poolQueue > 0
    /\ poolQueue' = poolQueue - 1
    /\ UNCHANGED notFeatVars
    /\ UNCHANGED <<listeners, loggers, fpc, fIdx, lIdx, last_sample, notifSeq,
                   invoked, ranOn, fexc, registered, changes>>

FeatNext ==
    \/ \E f \in FeatureIds, l \in FeatureListeners : Feature_add_listener(f, l)
    \/ \E f \in FeatureIds, l \in FeatureListeners : Feature_remove_listener(f, l)
    \/ \E f \in FeatureIds, g \in FeatureLoggers : Feature_add_logger(f, g)
    \/ handleNotification
    \/ update_features
    \/ update
    \/ notify_update
    \/ log_update
    \/ pool_worker

\* C9: the dispatch of a sample to the listeners and loggers queues the
\* calls and returns: no user callback runs on the thread that called
\* Feature.update, and no callback keeps that thread from returning.
C9_QueueAndReturn ==
    /\ "caller" \notin ranOn
    /\ fpc # "blocked"

\* C10: an exception raised by a listener or a logger does not leave the
\* notification handler, and when the handler has returned every feature of
\* the characteristic holds the new sample and each of its listeners and
\* loggers has been called.
C10_ListenerExceptionContained ==
    /\ fexc = "none"
    /\ (fpc = "idle" /\ notifSeq > 0) =>
           \A f \in FeatureIds :
               /\ last_sample[f] = notifSeq
               /\ \A i \in 1..Len(listeners[f]) : invoked[f][listeners[f][i]] >= 1
               /\ \A i \in 1..Len(loggers[f]) : invoked[f][loggers[f][i]] >= 1

\* C11: when the notification handler has returned without an exception,
\* each listener that a feature had when its update asked for notification,
\* and that nobody removed since, has been called exactly once for that
\* update; no listener is called more than once, and none while the update
\* holds the lock of the feature.
C11_EachListenerOnce ==
    /\ \A f \in FeatureIds, l \in FeatureListeners : invoked[f][l] <= 1
    /\ fpc = "extract" =>
           \A l \in FeatureListeners : invoked[Features[fIdx]][l] = 0
    /\ (fpc = "idle" /\ notifSeq > 0 /\ fexc = "none") =>
           \A f \in FeatureIds : \A i \in 1..Len(registered[f]) :
               invoked[f][registered[f][i]] = 1

(***************************************************************************)
(* The Node: connection status, binding of features to characteristics,    *)
(* reading, writing and notifications of features.                         *)
(***************************************************************************)
\* bits of DEFAULT_MASK_TO_FEATURE_DIC followed here: accelerometer (23),
\* gyroscope (22), magnetometer (21)
FeatureBits == {21, 22, 23}

\* feature masks: 0x00E00000, 0x00C00000, 0x00600000, 0x00400000
MASK_ACC_GYRO_MAG == 14680064
MASK_ACC_GYRO == 12582912
MASK_GYRO_MAG == 6291456
MASK_GYRO == 4194304

\* characteristic handles, in the order getCharacteristics returns them
Handles == {1, 2}
NoHandle == 0

AdvMasks == {MASK_ACC_GYRO_MAG, MASK_ACC_GYRO}
CharMasks == {MASK_ACC_GYRO, MASK_GYRO_MAG, MASK_GYRO}
PropSets == {{"READ", "WRITE", "NOTIFY"}, {"NOTIFY"}, {}}

Devices ==
    [chars : [Handles -> [mask : CharMasks, props : PropSets]], debug : BOOLEAN]

\* (mask & (1 << i)) != 0, for the masks below 2^31 followed here
Bit(mask, i) == IF i > 30 THEN FALSE ELSE (mask \div (2^i)) % 2 = 1

\* Node._build_available_features: the keys of _mask_to_feature_dic, as bit
\* numbers: the bits of the advertising mask that the decoder table knows
build_available_features(mask) == {b \in FeatureBits : Bit(mask, b)}

\* Node._build_features: the loop from bit 31 down to bit 0
RECURSIVE build_features_from(_, _, _)
build_features_from(feature_mask, dic, i) ==
    IF i < 0 THEN <<>>
    ELSE (IF Bit(feature_mask, i) /\ i \in dic THEN <<i>> ELSE <<>>)
         \o build_features_from(feature_mask, dic, i - 1)

\* a scan from bit 0 up to bit 31
RECURSIVE build_features_ascending_from(_, _, _)
build_features_ascending_from(feature_mask, dic, i) ==
    IF i > 31 THEN <<>>
    ELSE (IF Bit(feature_mask, i) /\ i \in dic THEN <<i>> ELSE <<>>)
         \o build_features_ascending_from(feature_mask, dic, i + 1)

build_features_ascending(feature_mask, dic) ==
    build_features_ascending_from(feature_mask, dic, 0)

build_features(feature_mask, dic) == build_features_from(feature_mask, dic, 31)

\* the dictionary filled by connect: one entry per characteristic with a
\* non-empty list of features (<<>> stands for no entry)
bind_features(dev, mask) ==
    [h \in Handles |->
        build_features(dev.chars[h].mask, build_available_features(mask))]

\* a loop that keeps the last characteristic found with the feature
RECURSIVE set_feature_characteristic_last(_, _, _, _, _)
set_feature_characteristic_last(feature, dict, h, chr, features_size) ==
    IF h \notin Handles THEN chr
    ELSE IF dict[h] # <<>> /\ InList(dict[h], feature)
         THEN set_feature_characteristic_last(feature, dict, h + 1, h, Len(dict[h]))
         ELSE set_feature_characteristic_last(feature, dict, h + 1, chr, features_size)

\* Node._set_features_characteristics, for one feature: the loop over the
\* entries of the dictionary, in handle order, from entry h on
RECURSIVE set_feature_characteristic(_, _, _, _, _)
set_feature_characteristic(feature, dict, h, chr, features_size) ==
    IF h \notin Handles THEN chr
    ELSE IF dict[h] # <<>> /\ InList(dict[h], feature)
         THEN IF chr = NoHandle
              THEN set_feature_characteristic(feature, dict, h + 1, h, Len(dict[h]))
              ELSE IF Len(dict[h]) > features_size
                   THEN set_feature_characteristic(feature, dict, h + 1, h, Len(dict[h]))
                   ELSE set_feature_characteristic(feature, dict, h + 1, chr, features_size)
         ELSE set_feature_characteristic(feature, dict, h + 1, chr, features_size)

\* Node._set_features_characteristics: every available feature
set_features_characteristics(available, dict, old) ==
    [f \in FeatureBits |->
        IF f \in available
        THEN set_feature_characteristic(f, dict, 1, old[f], 0)
        ELSE old[f]]

\* no scan entry seen yet
NoDevice ==
    [chars |-> [h \in Handles |-> [mask |-> 0, props |-> {}]], debug |-> FALSE]

NodeInit ==
    /\ device = NoDevice
    /\ advMask = 0
    /\ status = "INIT"
    /\ nexc = "none"
    /\ charFeatures = [h \in Handles |-> <<>>]
    /\ characteristic = [f \in FeatureBits |-> NoHandle]
    /\ is_enabled = [f \in FeatureBits |-> FALSE]
    /\ is_notifying = [f \in FeatureBits |-> FALSE]
    /\ cccd = [h \in Handles |-> FALSE]
    /\ io = <<>>
    /\ failed = FALSE
    /\ notifyOn = {}
    /\ lastOp = <<"none", 0>>
    /\ nret = "None"

\* Node.__init__: the node is built from the scan entry of a device
Node_init(dev, mask) ==
    /\ status = "INIT"
    /\ device' = dev
    /\ advMask' = mask
    /\ status' = "IDLE"
    /\ lastOp' = <<"__init__", 0>>
    /\ nret' = "None"
    /\ UNCHANGED <<nexc, charFeatures, characteristic, is_enabled,
                   is_notifying, cccd, io, failed, notifyOn>>
    /\ UNCHANGED notNodeVars

\* a call of the transport: its name, the characteristic handle and the
\* value written, where it has them
IO(name, h, v) == [name |-> name, h |-> h, v |-> v]
Call(name) == IO(name, NoHandle, "")

\* Node._unexpected_disconnect: the status after it, given whether its own
\* disconnect fails
unexpected_disconnect(discFail) == IF discFail THEN "UNREACHABLE" ELSE "IDLE"

\* Node.is_connected
is_connected == status = "CONNECTED"

\* the connection is gone: the device forgets the notification states
connection_lost ==
    /\ cccd' = [h \in Handles |-> FALSE]
    /\ notifyOn' = {}

\* Node.connect; the connection or the discovery of the services raises
\* BTLEException (fail), or getServices returns no service (noServices)
Node_connect(fail, noServices, discFail) ==
    /\ status # "INIT"
    /\ lastOp' = <<"connect", 0>>
    /\ nexc' = "none"
    /\ IF status # "IDLE"
       THEN /\ nret' = "False"
            /\ io' = <<>>
            /\ failed' = FALSE
            /\ UNCHANGED <<status, charFeatures, characteristic, is_enabled,
                           cccd, notifyOn>>
       ELSE /\ failed' = fail
            /\ connection_lost
            /\ IF fail
               THEN /\ status' = unexpected_disconnect(discFail)
                    /\ nret' = "None"
                    /\ io' = <<Call("connect"), Call("disconnect")>>
                    /\ UNCHANGED <<charFeatures, characteristic, is_enabled>>
               ELSE IF noServices
               THEN /\ status' = "CONNECTING"
                    /\ nret' = "False"
                    /\ io' = <<Call("connect"), Call("getServices")>>
                    /\ UNCHANGED <<charFeatures, characteristic, is_enabled>>
               ELSE /\ status' = "CONNECTED"
                    /\ nret' = "True"
                    /\ io' = <<Call("connect"), Call("getServices"),
                             Call("getCharacteristics")>>
                    /\ charFeatures' = bind_features(device, advMask)
                    /\ is_enabled' =
                           [f \in FeatureBits |->
                               is_enabled[f]
                                   \/ \E h \in Handles : InList(charFeatures'[h], f)]
                    /\ characteristic' =
                           set_features_characteristics(
                               build_available_features(advMask), charFeatures',
                               characteristic)
    /\ UNCHANGED <<device, advMask, is_notifying>>
    /\ UNCHANGED notNodeVars

\* Node.disconnect
Node_disconnect(fail, discFail) ==
    /\ is_connected
    /\ lastOp' = <<"disconnect", 0>>
    /\ nret' = IF fail THEN "None" ELSE "True"
    /\ nexc' = "none"
    /\ failed' = fail
    /\ connection_lost
    /\ status' = IF fail THEN unexpected_disconnect(discFail) ELSE "IDLE"
    /\ io' = IF fail THEN <<Call("disconnect"), Call("disconnect")>>
             ELSE <<Call("disconnect")>>
    /\ UNCHANGED <<device, advMask, charFeatures, characteristic, is_enabled,
                   is_notifying>>
    /\ UNCHANGED notNodeVars

\* NodeDelegate.handleNotification when what it calls raises BTLEException:
\* its handler calls self._unexpected_disconnect(), which NodeDelegate does
\* not have
handleNotification_BTLEException == "AttributeError"

\* Node.wait_for_notifications; outcome: nothing fails, waitForNotifications
\* raises BTLEException, or a notification is delivered for the debug
\* console and a write made by its listener raises BTLEException
Node_wait_for_notifications(outcome, discFail) ==
    /\ is_connected
    /\ outcome = "handler_fails" => device.debug
    /\ lastOp' = <<"wait_for_notifications", 0>>
    /\ nret' = "None"
    /\ failed' = (outcome # "ok")
    /\ CASE outcome = "ok" ->
              /\ io' = <<Call("waitForNotifications")>>
              /\ nexc' = "none"
              /\ UNCHANGED <<status, cccd, notifyOn>>
         [] outcome = "transport_fails" ->
              /\ io' = <<Call("waitForNotifications"), Call("disconnect")>>
              /\ nexc' = "none"
              /\ status' = unexpected_disconnect(discFail)
              /\ connection_lost
         [] outcome = "handler_fails" ->
              /\ io' = <<Call("waitForNotifications"), Call("writeCharacteristic")>>
              /\ nexc' = handleNotification_BTLEException
              /\ UNCHANGED <<status, cccd, notifyOn>>
    /\ UNCHANGED <<device, advMask, charFeatures, characteristic, is_enabled,
                   is_notifying>>
    /\ UNCHANGED notNodeVars

\* a call of the transport fails for lack of a connection
not_connected_fails(fail) == ~is_connected => fail

\* a capability check that accepts every characteristic
characteristic_can_be_anything(prop, h) == TRUE

\* Node.characteristic_can_be_read / _written / _notified
characteristic_can_be(prop, h) ==
    h # NoHandle /\ prop \in device.chars[h].props

\* the checks made by read_feature and write_feature before any transport
\* call: the feature is enabled and its characteristic has the capability
feature_operation_allowed(f, prop) ==
    is_enabled[f] /\ characteristic_can_be(prop, characteristic[f])

\* Node.read_feature; outcome: the read and the decoding succeed, the read
\* raises BTLEException, or the data read is too short for the feature
Node_read_feature(f, outcome, discFail) ==
    /\ status # "INIT"
    /\ not_connected_fails(outcome = "transport_fails")
    /\ lastOp' = <<"read_feature", f>>
    /\ nret' = "None"
    /\ IF ~feature_operation_allowed(f, "READ")
       THEN /\ nexc' = "BlueSTInvalidOperationException"
            /\ io' = <<>>
            /\ failed' = FALSE
            /\ UNCHANGED <<status, cccd, notifyOn>>
       ELSE CASE outcome = "ok" ->
                  /\ nexc' = "none"
                  /\ io' = <<IO("readCharacteristic", characteristic[f], "")>>
                  /\ failed' = FALSE
                  /\ UNCHANGED <<status, cccd, notifyOn>>
             [] outcome = "invalid_data" ->
                  /\ nexc' = "BlueSTInvalidDataException"
                  /\ io' = <<IO("readCharacteristic", characteristic[f], "")>>
                  /\ failed' = FALSE
                  /\ UNCHANGED <<status, cccd, notifyOn>>
             [] outcome = "transport_fails" ->
                  /\ nexc' = "none"
                  /\ io' = <<IO("readCharacteristic", characteristic[f], ""),
                            Call("disconnect")>>
                  /\ failed' = TRUE
                  /\ status' = unexpected_disconnect(discFail)
                  /\ connection_lost
    /\ UNCHANGED <<device, advMask, charFeatures, characteristic, is_enabled,
                   is_notifying>>
    /\ UNCHANGED notNodeVars

\* Node.write_feature
Node_write_feature(f, fail, discFail) ==
    /\ status # "INIT"
    /\ not_connected_fails(fail)
    /\ lastOp' = <<"write_feature", f>>
    /\ nret' = "None"
    /\ IF ~feature_operation_allowed(f, "WRITE")
       THEN /\ nexc' = "BlueSTInvalidOperationException"
            /\ io' = <<>>
            /\ failed' = FALSE
            /\ UNCHANGED <<status, cccd, notifyOn>>
       ELSE /\ nexc' = "none"
            /\ failed' = fail
            /\ IF fail
               THEN /\ io' = <<IO("writeCharacteristic", characteristic[f], "data"),
                              Call("disconnect")>>
                    /\ status' = unexpected_disconnect(discFail)
                    /\ connection_lost
               ELSE /\ io' = <<IO("writeCharacteristic", characteristic[f], "data")>>
                    /\ UNCHANGED <<status, cccd, notifyOn>>
    /\ UNCHANGED <<device, advMask, charFeatures, characteristic, is_enabled,
                   is_notifying>>
    /\ UNCHANGED notNodeVars

\* a variant that never finds another notifying feature
characteristic_has_no_other_features(h, feature, flags) == FALSE

\* Node.characteristic_has_other_notifying_features, with the notify flags
\* given
characteristic_has_other_notifying_features(h, feature, flags) ==
    \E i \in 1..Len(charFeatures[h]) :
        charFeatures[h][i] # feature /\ flags[charFeatures[h][i]]

\* Node.set_notification_status: the write to the characteristic, and
\* _unexpected_disconnect when it fails
set_notification_status_of(h, on, fail, discFail) ==
    /\ failed' = fail
    /\ IF fail
       THEN /\ io' = <<IO("writeCharacteristic", h, IF on THEN "ON" ELSE "OFF"),
                      Call("disconnect")>>
            /\ status' = unexpected_disconnect(discFail)
            /\ cccd' = [g \in Handles |-> FALSE]
       ELSE /\ io' = <<IO("writeCharacteristic", h, IF on THEN "ON" ELSE "OFF")>>
            /\ cccd' = [cccd EXCEPT ![h] = on]
            /\ UNCHANGED status

\* Node.enable_notifications
enable_notifications(f, fail, discFail) ==
    /\ status # "INIT"
    /\ not_connected_fails(fail)
    /\ lastOp' = <<"enable_notifications", f>>
    /\ nret' = IF is_enabled[f] /\ characteristic_can_be("NOTIFY", characteristic[f])
               THEN "True" ELSE "False"
    /\ nexc' = "none"
    /\ IF is_enabled[f] /\ characteristic_can_be("NOTIFY", characteristic[f])
       THEN /\ is_notifying' = [is_notifying EXCEPT ![f] = TRUE]
            /\ set_notification_status_of(characteristic[f], TRUE, fail, discFail)
            /\ notifyOn' = IF fail THEN {} ELSE notifyOn \cup {f}
       ELSE /\ io' = <<>>
            /\ failed' = FALSE
            /\ UNCHANGED <<is_notifying, status, cccd, notifyOn>>
    /\ UNCHANGED <<device, advMask, charFeatures, characteristic, is_enabled>>
    /\ UNCHANGED notNodeVars

\* Node.disable_notifications
disable_notifications(f, fail, discFail) ==
    /\ status # "INIT"
    /\ not_connected_fails(fail)
    /\ lastOp' = <<"disable_notifications", f>>
    /\ nret' = IF is_enabled[f] /\ characteristic_can_be("NOTIFY", characteristic[f])
               THEN "True" ELSE "False"
    /\ nexc' = "none"
    /\ IF is_enabled[f] /\ characteristic_can_be("NOTIFY", characteristic[f])
       THEN /\ is_notifying' = [is_notifying EXCEPT ![f] = FALSE]
            /\ IF characteristic_has_other_notifying_features(
                      characteristic[f], f, is_notifying')
               THEN /\ io' = <<>>
                    /\ failed' = FALSE
                    /\ notifyOn' = notifyOn \ {f}
                    /\ UNCHANGED <<status, cccd>>
               ELSE /\ set_notification_status_of(
                           characteristic[f], FALSE, fail, discFail)
                    /\ notifyOn' = IF fail THEN {} ELSE notifyOn \ {f}
       ELSE /\ io' = <<>>
            /\ failed' = FALSE
            /\ UNCHANGED <<is_notifying, status, cccd, notifyOn>>
    /\ UNCHANGED <<device, advMask, charFeatures, characteristic, is_enabled>>
    /\ UNCHANGED notNodeVars

NodeNext ==
    \/ \E dev \in Devices, mask \in AdvMasks : Node_init(dev, mask)
    \/ \E fail, noServices, discFail \in BOOLEAN :
          Node_connect(fail, noServices, discFail)
    \/ \E fail, discFail \in BOOLEAN : Node_disconnect(fail, discFail)
    \/ \E outcome \in {"ok", "transport_fails", "handler_fails"},
          discFail \in BOOLEAN : Node_wait_for_notifications(outcome, discFail)
    \/ \E f \in FeatureBits, fail, discFail \in BOOLEAN :
          enable_notifications(f, fail, discFail)
    \/ \E f \in FeatureBits, fail, discFail \in BOOLEAN :
          disable_notifications(f, fail, discFail)
    \/ \E f \in FeatureBits, discFail \in BOOLEAN,
          outcome \in {"ok", "transport_fails", "invalid_data"} :
          Node_read_feature(f, outcome, discFail)
    \/ \E f \in FeatureBits, fail, discFail \in BOOLEAN :
          Node_write_feature(f, fail, discFail)

\* C12: when a Node operation has met a transport failure, a disconnect was
\* attempted and the status of the Node is UNREACHABLE or IDLE, not
\* CONNECTED, and no exception has left the operation.
C12_FailureLeavesNodeDisconnected ==
    failed =>
        /\ status \in {"UNREACHABLE", "IDLE"}
        /\ InList(io, Call("disconnect"))
        /\ nexc = "none"

\* C13: a feature whose enable_notifications wrote notification-ON in this
\* connection, and that was not itself disabled since, is flagged as
\* notifying and its owning characteristic still has notifications on; and
\* disable_notifications never writes notification-OFF to a characteristic
\* whose feature list still holds a feature flagged as notifying.
C13_CoTenantsKeepNotifications ==
    /\ \A f \in notifyOn :
           /\ is_notifying[f]
           /\ characteristic[f] # NoHandle
           /\ cccd[characteristic[f]]
    /\ \A h \in Handles :
           (lastOp[1] = "disable_notifications"
            /\ InList(io, IO("writeCharacteristic", h, "OFF"))) =>
               \A i \in 1..Len(charFeatures[h]) :
                   ~is_notifying[charFeatures[h][i]]

\* two features share their owning characteristic, both had notifications
\* enabled, one was just disabled and the other is still notifying
C13_Witness ==
    \E f, g \in FeatureBits :
        /\ f # g
        /\ lastOp = <<"disable_notifications", f>>
        /\ characteristic[f] = characteristic[g]
        /\ g \in notifyOn
        /\ ~is_notifying[f]
        /\ io = <<>>
        /\ cccd[characteristic[g]]

\* the capability that a Node operation needs on the characteristic
RequiredProperty(name) == IF name = "read_feature" THEN "READ" ELSE "WRITE"

\* C14: when read_feature or write_feature was called on a feature that is
\* disabled, or whose characteristic lacks the READ or WRITE capability, it
\* raised the invalid-operation exception and made no transport call.
C14_ChecksBeforeTransport ==
    (/\ lastOp[1] \in {"read_feature", "write_feature"}
     /\ \/ ~is_enabled[lastOp[2]]
        \/ characteristic[lastOp[2]] = NoHandle
        \/ RequiredProperty(lastOp[1])
               \notin device.chars[characteristic[lastOp[2]]].props) =>
        /\ nexc = "BlueSTInvalidOperationException"
        /\ io = <<>>

\* an enabled feature whose characteristic cannot be written, and a disabled
\* feature, were given to write_feature and read_feature on a connected node
C14_Witness ==
    /\ is_connected
    /\ nexc = "BlueSTInvalidOperationException"
    /\ \/ /\ lastOp[1] = "write_feature"
          /\ is_enabled[lastOp[2]]
          /\ characteristic[lastOp[2]] # NoHandle
          /\ "WRITE" \notin device.chars[characteristic[lastOp[2]]].props
       \/ /\ lastOp[1] = "read_feature"
          /\ ~is_enabled[lastOp[2]]

\* C19: after a connect, the feature list of a characteristic whose UUID
\* has feature mask M holds exactly the advertised features of the set bits
\* of M, the highest bit first; for M = 0x00C00000 with both features
\* advertised it is the accelerometer followed by the gyroscope.
C19_FeaturesBoundHighestFirst ==
    is_connected =>
        \A h \in Handles :
            /\ {charFeatures[h][k] : k \in 1..Len(charFeatures[h])} =
                   {b \in FeatureBits : Bit(device.chars[h].mask, b)
                                         /\ Bit(advMask, b)}
            /\ \A j, k \in 1..Len(charFeatures[h]) :
                   j < k => charFeatures[h][j] > charFeatures[h][k]
            /\ (device.chars[h].mask = MASK_ACC_GYRO
                    /\ Bit(advMask, 23) /\ Bit(advMask, 22)) =>
                   charFeatures[h] = <<23, 22>>

\* a connected node with a characteristic of mask 0x00C00000 bound to the
\* accelerometer and the gyroscope, and one of mask 0x00600000 bound to the
\* gyroscope only, the magnetometer not being advertised
C19_Witness ==
    /\ is_connected
    /\ advMask = MASK_ACC_GYRO
    /\ \E h, g \in Handles :
           /\ device.chars[h].mask = MASK_ACC_GYRO
           /\ charFeatures[h] = <<23, 22>>
           /\ device.chars[g].mask = MASK_GYRO_MAG
           /\ charFeatures[g] = <<22>>

\* the characteristics whose feature list holds feature f
characteristics_with(f) == {h \in Handles : InList(charFeatures[h], f)}

\* C20: after a connect, every feature that is in the feature list of at
\* least one characteristic has one owning characteristic: the one with the
\* longest feature list among those that hold the feature, and the first
\* found among those of the same length.
C20_OwnerHasLargestList ==
    is_connected =>
        \A f \in FeatureBits :
            characteristics_with(f) # {} =>
                /\ characteristic[f] \in characteristics_with(f)
                /\ \A h \in characteristics_with(f) :
                       \/ Len(charFeatures[h]) < Len(charFeatures[characteristic[f]])
                       \/ /\ Len(charFeatures[h]) = Len(charFeatures[characteristic[f]])
                          /\ h >= characteristic[f]

\* the gyroscope is alone in the list of the first characteristic and with
\* the accelerometer in the list of the second, which owns it
C20_Witness ==
    /\ is_connected
    /\ charFeatures[1] = <<22>>
    /\ charFeatures[2] = <<23, 22>>
    /\ characteristic[22] = 2
    /\ characteristic[23] = 2

\* C33: enable_notifications returns True and leaves the feature flagged as
\* notifying only if the write that enables the notifications succeeded;
\* if the feature is disabled, its characteristic cannot notify or the
\* write fails, it returns False and the feature is not flagged.
C33_EnableReportsWrite ==
    lastOp[1] = "enable_notifications" =>
        LET f == lastOp[2]
            wrote == io # <<>> /\ ~failed
        IN  /\ (nret = "True" /\ is_notifying[f]) => wrote
            /\ ~wrote => (nret = "False" /\ ~is_notifying[f])

\* C34: when an attempt of connect() returns, the status of the Node is
\* CONNECTED, and connect returned True, or it is IDLE; it is not left in
\* CONNECTING, where a later connect() is refused.
C34_ConnectEndsConnectedOrIdle ==
    (lastOp[1] = "connect" /\ io # <<>>) =>
        \/ status = "CONNECTED" /\ nret = "True"
        \/ status = "IDLE"

\* C36: whenever no feature of a connected Node is flagged as notifying,
\* the notifications are off on every characteristic of the Node.
C36_NoNotifyingFeatureNoNotifications ==
    (is_connected /\ \A f \in FeatureBits : ~is_notifying[f]) =>
        \A h \in Handles : ~cccd[h]

(***************************************************************************)
(* Decoding of notifications: NodeDelegate.handleNotification,             *)
(* Node._update_features, Feature.update and the extract_data of the       *)
(* feature classes.  The node of this part has no debug console; every     *)
(* feature has one listener and one logger.                                *)
(***************************************************************************)
\* notifications handled in one run
MaxDecNotifications == 3

\* size of the timestamp that opens every payload
TIMESTAMP_OFFSET_BYTES == 2

\* UnwrapTimestamp.NEAR_TO_END_TH, (1 << 16) - 100
NEAR_TO_END_TH == 65436

\* bits of DEFAULT_MASK_TO_FEATURE_DIC whose classes decode below:
\* 22 gyroscope, 21 magnetometer, 20 pressure, 18 temperature
DecBits == {18, 20, 21, 22}

MASK_PRESSURE == 1048576
MASK_PRESSURE_TEMP == 1310720
MASK_GYRO_PRESSURE == 5242880

\* feature masks of the characteristics of the device; 0 is a characteristic
\* that exports no feature
DecMasks == {MASK_GYRO_MAG, MASK_GYRO, MASK_GYRO_PRESSURE, MASK_PRESSURE,
             MASK_PRESSURE_TEMP, 0}

\* timestamps the device sends, and lengths of what follows the timestamp
DecTimestamps == {100, 65500}
BodyLens == {2, 4, 6, 12}

\* a payload: the timestamp in little endian order, then bytes that hold
\* their own position
Payload(ts, n) == <<ts % 256, ts \div 256>> \o [i \in 1..n |-> i + 2]

\* None, as the value of a dictionary lookup
None == <<>>

NoSample == [timestamp |-> -1, data |-> 0]

\* LittleEndian.bytes_to_uint16
bytes_to_uint16(data, start) == data[start + 1] + 256 * data[start + 2]

\* LittleEndian.bytes_to_int32
bytes_to_int32(data, start) ==
    data[start + 1] + 256 * data[start + 2] + 65536 * data[start + 3]
    + 16777216 * (IF data[start + 4] >= 128 THEN data[start + 4] - 256
                                            ELSE data[start + 4])

\* the class methods LittleEndian defines
LittleEndianMethods ==
    {"bytes_to_int16", "bytes_to_int32", "bytes_to_uint16", "bytes_to_uint32",
     "bytes_to_float", "int16_to_bytes", "int32_to_bytes", "uint16_to_bytes",
     "uint32_to_bytes", "float_to_bytes"}

\* DATA_LENGTH_BYTES of the class of a feature
DATA_LENGTH_BYTES(f) ==
    CASE f = 22 -> 6 [] f = 21 -> 6 [] f = 20 -> 4 [] f = 18 -> 2

\* what extract_data raises when the data left are too short
short_data_exception(f) ==
    CASE f = 22 -> "Exception"
      [] f = 20 -> "BlueSTInvalidDataException"
      [] OTHER -> "InvalidDataException"

ShortDataExceptions == {short_data_exception(f) : f \in DecBits}

\* the LittleEndian method extract_data decodes with
decoder(f) == IF f = 20 THEN "bytes_to_int32" ELSE "bytesToInt16"

Raised(e) == [exc |-> e, sample |-> NoSample, read_bytes |-> 0]

\* extract_data of the class of feature f; the sample keeps the decoded
\* integer, before the division by SCALE_FACTOR
extract_data(f, timestamp, data, offset) ==
    IF Len(data) - offset < DATA_LENGTH_BYTES(f)
    THEN Raised(short_data_exception(f))
    ELSE IF decoder(f) \notin LittleEndianMethods
    THEN Raised("AttributeError")
    ELSE [exc |-> "none",
          sample |-> [timestamp |-> timestamp,
                      data |-> bytes_to_int32(data, offset)],
          read_bytes |-> DATA_LENGTH_BYTES(f)]

\* an unwrapper that counts a rollover whenever the timestamp goes down
unwrap_on_any_decrease(u, timestamp) ==
    LET reset_times ==
            IF u.last_timestamp > timestamp THEN u.reset_times + 1
                                            ELSE u.reset_times
    IN  [state |-> [last_timestamp |-> timestamp, reset_times |-> reset_times],
         value |-> reset_times * 65536 + timestamp]

\* an unwrapper that never counts a rollover
unwrap_never_wraps(u, timestamp) ==
    [state |-> [last_timestamp |-> timestamp, reset_times |-> u.reset_times],
     value |-> u.reset_times * 65536 + timestamp]

\* UnwrapTimestamp.unwrap: the new state of the unwrapper and the value
unwrap(u, timestamp) ==
    LET reset_times ==
            IF u.last_timestamp > NEAR_TO_END_TH /\ u.last_timestamp > timestamp
            THEN u.reset_times + 1
            ELSE u.reset_times
    IN  [state |-> [last_timestamp |-> timestamp, reset_times |-> reset_times],
         value |-> reset_times * 65536 + timestamp]

\* a cursor that stays where it is
next_offset_stays(offset, read_bytes) == offset

\* Node._update_features: offset += feature.update(...)
next_offset(offset, read_bytes) == offset + read_bytes

\* Node._update_features, the loop over the features from the k-th on, with
\* Feature.update for each: extract_data, _last_sample, the listeners and
\* the loggers.  st holds the cursor, the features' state and the calls made.
RECURSIVE update_loop(_, _, _, _, _)
update_loop(features, k, timestamp, data, st) ==
    IF k > Len(features) THEN st
    ELSE
        LET f == features[k]
            x == extract_data(f, timestamp, data, st.offset)
            entry == [feature |-> f, offset |-> st.offset,
                      read_bytes |-> x.read_bytes, exc |-> x.exc]
        IN  IF x.exc # "none"
            THEN [st EXCEPT !.log = Append(@, entry), !.exc = x.exc]
            ELSE update_loop(features, k + 1, timestamp, data,
                     [offset |-> next_offset(st.offset, x.read_bytes),
                      sample |-> [st.sample EXCEPT ![f] = x.sample],
                      notified |-> [st.notified EXCEPT ![f] = @ + 1],
                      logged |-> [st.logged EXCEPT ![f] = @ + 1],
                      log |-> Append(st.log, entry),
                      exc |-> "none"])

\* Node._get_corresponding_features
get_corresponding_features(h) == update_dict[h]

\* an unwrapper that is fed before the features are looked up
unwrap_before_lookup(features, data) ==
    unwrap(unwrapper, bytes_to_uint16(data, 0))

\* Node._update_features, up to the timestamp: nothing is unwrapped for a
\* characteristic without features
update_features_timestamp(features, data) ==
    IF features = None
    THEN [state |-> unwrapper, value |-> 0]
    ELSE unwrap(unwrapper, bytes_to_uint16(data, 0))

DecInit ==
    /\ update_dict = [h \in Handles |-> None]
    /\ unwrapper = [last_timestamp |-> 0, reset_times |-> 0]
    /\ dec_status = "IDLE"
    /\ dec_sample = [f \in DecBits |-> NoSample]
    /\ dec_notified = [f \in DecBits |-> 0]
    /\ dec_logged = [f \in DecBits |-> 0]
    /\ dec_seq = 0
    /\ dec_last = [h |-> NoHandle, data |-> <<>>]
    /\ dec_log = <<>>
    /\ dec_exc = "none"
    /\ dec_warned = FALSE
    /\ dec_short = FALSE

\* Node.connect of a device whose characteristics have the masks m; every
\* feature of DecBits is advertised.  The device is the same at every
\* connection.
Decode_connect(m) ==
    LET dict == [h \in Handles |-> build_features(m[h], DecBits)]
    IN  /\ dec_status = "IDLE"
        /\ (\E h \in Handles : update_dict[h] # None) => dict = update_dict
        /\ update_dict' = dict
        /\ dec_status' = "CONNECTED"
        /\ UNCHANGED <<unwrapper, dec_sample, dec_notified, dec_logged,
                       dec_seq, dec_last, dec_log, dec_exc, dec_warned,
                       dec_short>>
        /\ UNCHANGED notDecVars

\* Node.disconnect
Decode_disconnect ==
    /\ dec_status = "CONNECTED"
    /\ dec_status' = "IDLE"
    /\ UNCHANGED <<update_dict, unwrapper, dec_sample, dec_notified,
                   dec_logged, dec_seq, dec_last, dec_log, dec_exc,
                   dec_warned, dec_short>>
    /\ UNCHANGED notDecVars

\* NodeDelegate.handleNotification(char_handle, data) with
\* Node._update_features(char_handle, data, True)
Decode_handleNotification(h, data) ==
    LET features == get_corresponding_features(h)
        ts == update_features_timestamp(features, data)
        st == update_loop(features, 1, ts.value, data,
                  [offset |-> TIMESTAMP_OFFSET_BYTES, sample |-> dec_sample,
                   notified |-> dec_notified, logged |-> dec_logged,
                   log |-> <<>>, exc |-> "none"])
    IN  /\ dec_status = "CONNECTED"
        /\ dec_seq < MaxDecNotifications
        /\ dec_seq' = dec_seq + 1
        /\ dec_last' = [h |-> h, data |-> data]
        /\ unwrapper' = ts.state
        /\ dec_sample' = st.sample
        /\ dec_notified' = st.notified
        /\ dec_logged' = st.logged
        /\ dec_log' = st.log
        /\ dec_warned' = (st.exc = "BlueSTInvalidDataException")
        /\ dec_exc' = IF st.exc = "BlueSTInvalidDataException" THEN "none"
                                                               ELSE st.exc
        /\ dec_short' = (dec_short \/ st.exc \in ShortDataExceptions)
        /\ UNCHANGED <<update_dict, dec_status>>
        /\ UNCHANGED notDecVars

DecNext ==
    \/ \E m \in [Handles -> DecMasks] : Decode_connect(m)
    \/ Decode_disconnect
    \/ \E h \in Handles, ts \in DecTimestamps, n \in BodyLens :
           Decode_handleNotification(h, Payload(ts, n))

\* bytes the first k - 1 extract_data calls of a log returned
RECURSIVE consumed_before(_, _)
consumed_before(log, k) ==
    IF k <= 1 THEN 0 ELSE log[k - 1].read_bytes + consumed_before(log, k - 1)

\* C15: the features bound to the characteristic of a notification are
\* decoded in the order of its feature list, and the k-th extract_data is
\* called at offset 2 plus the bytes the calls before it returned, so that
\* the ranges decoded are contiguous and disjoint.
C15_ContiguousOffsets ==
    dec_seq > 0 =>
        /\ Len(dec_log) <= Len(update_dict[dec_last.h])
        /\ \A k \in 1..Len(dec_log) :
               /\ dec_log[k].feature = update_dict[dec_last.h][k]
               /\ dec_log[k].offset = 2 + consumed_before(dec_log, k)

\* a pressure feature decoded from bytes 2..5 and the temperature feature
\* after it asked to decode from offset 6
C15_Witness ==
    /\ dec_seq > 0
    /\ Len(dec_log) = 2
    /\ dec_log[1] = [feature |-> 20, offset |-> 2, read_bytes |-> 4,
                     exc |-> "none"]
    /\ dec_log[2].feature = 18
    /\ dec_log[2].offset = 6

\* C16: a payload of a 2-byte timestamp and 12 more bytes, notified on a
\* characteristic bound to two features of 6 bytes each, gives exactly two
\* sample updates, the first decoded from offset 2 and the second from
\* offset 8, each of 6 bytes, and each with its listener called.
C16_TwoFeaturesTwoSamples ==
    (/\ dec_seq > 0
     /\ Len(update_dict[dec_last.h]) = 2
     /\ \A k \in 1..2 : DATA_LENGTH_BYTES(update_dict[dec_last.h][k]) = 6
     /\ Len(dec_last.data) = TIMESTAMP_OFFSET_BYTES + 12) =>
        /\ dec_exc = "none"
        /\ Len(dec_log) = 2
        /\ \A k \in 1..2 :
               /\ dec_log[k].exc = "none"
               /\ dec_log[k].offset = 2 + 6 * (k - 1)
               /\ dec_log[k].read_bytes = 6
               /\ dec_notified[dec_log[k].feature] > 0
               /\ dec_sample[dec_log[k].feature] # NoSample

\* C17: a notification for a characteristic handle that has no feature list
\* is ignored: no sample changes, no listener and no logger is called, no
\* extract_data is called, and the state of the timestamp unwrapper is left
\* as it was.
C17_UnboundHandleIgnored ==
    [][(/\ dec_seq' = dec_seq + 1
        /\ get_corresponding_features(dec_last'.h) = None) =>
           /\ UNCHANGED <<dec_sample, dec_notified, dec_logged, unwrapper>>
           /\ dec_log' = <<>>
           /\ dec_exc' = "none"]_vars

\* after a pressure sample with one timestamp, a notification with another
\* timestamp for a handle without features: the unwrapper holds the first
C17_Witness ==
    /\ dec_seq > 1
    /\ get_corresponding_features(dec_last.h) = None
    /\ dec_sample[20] # NoSample
    /\ unwrapper.last_timestamp = dec_sample[20].timestamp
    /\ unwrapper.last_timestamp # bytes_to_uint16(dec_last.data, 0)

\* the last notification was too short for one of its features
last_was_short ==
    /\ dec_seq > 0
    /\ dec_log # <<>>
    /\ dec_log[Len(dec_log)].exc \in ShortDataExceptions

\* the last notification had the bytes for every feature of its handle
RECURSIVE bytes_needed(_, _)
bytes_needed(features, k) ==
    IF k > Len(features) THEN 0
    ELSE DATA_LENGTH_BYTES(features[k]) + bytes_needed(features, k + 1)

\* C18: when extract_data finds too few bytes during a notification, the
\* failure is logged and contained: no exception leaves handleNotification
\* and the status of the node stays CONNECTED; and a later notification
\* that has the bytes for its features is decoded.
C18_ShortDataContained ==
    /\ last_was_short =>
           /\ dec_exc = "none"
           /\ dec_warned
           /\ dec_status \in {"CONNECTED", "IDLE"}
    /\ (/\ dec_short
        /\ dec_seq > 0
        /\ ~last_was_short
        /\ get_corresponding_features(dec_last.h) # None
        /\ Len(dec_last.data) >= TIMESTAMP_OFFSET_BYTES
               + bytes_needed(get_corresponding_features(dec_last.h), 1)) =>
           /\ dec_exc = "none"
           /\ Len(dec_log) = Len(get_corresponding_features(dec_last.h))

\* C22: when a node connects again after a disconnection, its timestamp
\* unwrapper is back at _reset_times = 0 and _last_timestamp = 0 before the
\* first notification of the new connection is unwrapped.
C22_UnwrapperResetOnReconnect ==
    [][(dec_status = "IDLE" /\ dec_status' = "CONNECTED") =>
           unwrapper' = [last_timestamp |-> 0, reset_times |-> 0]]_vars

(***************************************************************************)
(* UnwrapTimestamp on its own: one unwrapper fed with raw timestamps.      *)
(***************************************************************************)
\* unwrap calls made on one unwrapper
MaxUnwraps == 4

\* raw timestamps: low values, values below and above NEAR_TO_END_TH
RawTimestamps == {0, 100, 65000, 65437, 65535}

\* UnwrapTimestamp.__init__
NewUnwrapper == [last_timestamp |-> 0, reset_times |-> 0]

UwInit ==
    /\ uw = NewUnwrapper
    /\ uw_before = NewUnwrapper
    /\ uw_raw = 0
    /\ uw_ret = 0
    /\ uw_prev_ret = -1
    /\ uw_calls = 0
    /\ uw_genuine = TRUE

\* UnwrapTimestamp(): a new unwrapper replaces the old one
Unwrap_new ==
    /\ uw_calls > 0
    /\ uw' = NewUnwrapper
    /\ uw_before' = NewUnwrapper
    /\ uw_raw' = 0
    /\ uw_ret' = 0
    /\ uw_prev_ret' = -1
    /\ uw_calls' = 0
    /\ uw_genuine' = TRUE
    /\ UNCHANGED notUwVars

\* UnwrapTimestamp.unwrap(raw)
Unwrap_call(raw) ==
    /\ uw_calls < MaxUnwraps
    /\ uw_calls' = uw_calls + 1
    /\ uw_before' = uw
    /\ uw_raw' = raw
    /\ uw' = unwrap(uw, raw).state
    /\ uw_ret' = unwrap(uw, raw).value
    /\ uw_prev_ret' = IF uw_calls = 0 THEN -1 ELSE uw_ret
    /\ uw_genuine' = (uw_genuine /\ (raw >= uw.last_timestamp
                                       \/ uw.last_timestamp > NEAR_TO_END_TH))
    /\ UNCHANGED notUwVars

UwNext ==
    \/ Unwrap_new
    \/ \E raw \in RawTimestamps : Unwrap_call(raw)

\* C23: an unwrap call adds one to the rollover count exactly when the
\* previous raw timestamp was above 65536 - 100 and the new one is below
\* the previous one, and leaves the count alone otherwise; it records the new
\* raw timestamp as the previous one and returns count * 65536 + raw.
C23_UnwrapStep ==
    uw_calls > 0 =>
        /\ uw.reset_times = uw_before.reset_times +
               (IF uw_before.last_timestamp > 65536 - 100
                   /\ uw_raw < uw_before.last_timestamp
                THEN 1 ELSE 0)
        /\ uw.last_timestamp = uw_raw
        /\ uw_ret = uw.reset_times * 65536 + uw_raw

\* a second rollover counted: 65535 then 0 on an unwrapper that had counted
\* one rollover already
C23_Witness ==
    /\ uw_calls > 0
    /\ uw_before = [last_timestamp |-> 65535, reset_times |-> 1]
    /\ uw_raw = 0
    /\ uw = [last_timestamp |-> 0, reset_times |-> 2]
    /\ uw_ret = 131072

\* C24: on one unwrapper, the values returned by successive unwrap calls
\* never go down, whatever the raw timestamps are.
C24_AlwaysNonDecreasing ==
    uw_prev_ret >= 0 => uw_ret >= uw_prev_ret

\* C25: as long as the raw timestamp has gone down only right after a value
\* above the threshold, the values returned by successive unwrap calls on
\* one unwrapper never go down.
C25_NonDecreasingOnRollovers ==
    (uw_genuine /\ uw_prev_ret >= 0) => uw_ret >= uw_prev_ret

\* a rollover in such a sequence: the raw timestamp went from 65437 down to
\* 100 and the value returned went up
C25_Witness ==
    /\ uw_genuine
    /\ uw_before.last_timestamp = 65437
    /\ uw_raw = 100
    /\ uw_prev_ret >= 0
    /\ uw_ret > uw_prev_ret

(***************************************************************************)
(* BlueSTAdvertisingDataParser.parse and the Node built from a scan entry. *)
(* The manufacturer specific data, a string of hexadecimal digits in the   *)
(* code, is the sequence of the bytes it spells.                           *)
(***************************************************************************)
ADVERTISING_DATA_MANUFACTURER_LENGTH_1 == 7
ADVERTISING_DATA_MANUFACTURER_LENGTH_2 == 13
VERSION_PROTOCOL_SUPPORTED_MIN == 1
VERSION_PROTOCOL_SUPPORTED_MAX == 1

\* lengths of the manufacturer specific data, protocol versions and
\* device-type bytes that devices send
MsdLens == {5, 6, 7, 12, 13}
ProtocolVersions == {0, 1, 2}
DeviceTypeBytes == 0..255

\* manufacturer specific data of n bytes: protocol version, device-type
\* byte, the feature mask 0x00C00000, then address bytes
Msd(n, v, b) ==
    [i \in 1..n |->
        CASE i = 1 -> v [] i = 2 -> b [] i = 4 -> 192 [] i > 6 -> i
          [] OTHER -> 0]

\* advertising data without and with manufacturer specific data
AdvData ==
    {[present |-> FALSE, bytes |-> <<>>]} \cup
    {[present |-> TRUE, bytes |-> Msd(n, v, b)] :
        n \in MsdLens, v \in ProtocolVersions, b \in DeviceTypeBytes}

NoDescriptor ==
    [exc |-> "none", device_id |-> -1, device_type |-> "GENERIC",
     protocol_version |-> -1, feature_mask |-> -1, sleeping |-> FALSE,
     has_address |-> FALSE]

NoNode == [built |-> FALSE, advertising_data |-> NoDescriptor]

\* int(manufacturer_specific_data[4:12], 16): the bytes 2..5, the first the
\* most significant; the bytes of s that are there are read
feature_mask_of(s) ==
    LET byte(i) == IF i <= Len(s) THEN s[i] ELSE 0
        digits == IF Len(s) >= 6 THEN 4 ELSE IF Len(s) <= 2 THEN 0 ELSE Len(s) - 2
    IN  CASE digits = 4 -> byte(3) * 16777216 + byte(4) * 65536
                           + byte(5) * 256 + byte(6)
          [] digits = 3 -> byte(3) * 65536 + byte(4) * 256 + byte(5)
          [] digits = 2 -> byte(3) * 256 + byte(4)
          [] digits = 1 -> byte(3)
          [] OTHER -> 0

\* a length check that lets every length through
any_length(length) == TRUE

\* length != LENGTH_1 and length != LENGTH_2 raises
supported_length(length) ==
    length = ADVERTISING_DATA_MANUFACTURER_LENGTH_1
    \/ length = ADVERTISING_DATA_MANUFACTURER_LENGTH_2

\* a decoding that keeps the low 5 bits of every byte
decode_device_id_low_bits(b) == b % 32

\* device_id & 0xFF if device_id & 0x80 == 0x80 else device_id & 0x1F
decode_device_id(b) == IF (b \div 128) % 2 = 1 THEN b % 256 ELSE b % 32

\* BlueSTAdvertisingDataParser._get_node_type
get_node_type(device_id) ==
    LET temp == device_id % 256
    IN  CASE temp = 1 -> "STEVAL_WESU1"
          [] temp = 2 -> "SENSOR_TILE"
          [] temp = 3 -> "BLUE_COIN"
          [] temp = 4 -> "STEVAL_IDB008VX"
          [] temp = 5 -> "STEVAL_BCN002V1"
          [] temp = 6 -> "SENSOR_TILE_BOX"
          [] temp >= 128 /\ temp <= 255 -> "NUCLEO"
          [] OTHER -> "GENERIC"

\* BlueSTAdvertisingDataParser._get_node_sleeping_status
get_node_sleeping_status(node_type) ==
    (node_type \div 128) % 2 # 1 /\ (node_type \div 64) % 2 = 1

InvalidAdvertisingData ==
    [NoDescriptor EXCEPT !.exc = "BlueSTInvalidAdvertisingDataException"]

\* BlueSTAdvertisingDataParser.parse
parse(advertising_data) ==
    LET s == advertising_data.bytes
        length == Len(s) + 1
    IN  IF ~advertising_data.present THEN InvalidAdvertisingData
        ELSE IF ~supported_length(length) THEN InvalidAdvertisingData
        ELSE IF s[1] < VERSION_PROTOCOL_SUPPORTED_MIN
                \/ s[1] > VERSION_PROTOCOL_SUPPORTED_MAX
        THEN InvalidAdvertisingData
        ELSE [exc |-> "none",
              device_id |-> decode_device_id(s[2]),
              device_type |-> get_node_type(decode_device_id(s[2])),
              protocol_version |-> s[1],
              feature_mask |-> feature_mask_of(s),
              sleeping |-> get_node_sleeping_status(s[2]),
              has_address |->
                  (length = ADVERTISING_DATA_MANUFACTURER_LENGTH_2)]

AdvInit ==
    /\ adv_in = [present |-> FALSE, bytes |-> <<>>]
    /\ adv_out = NoDescriptor
    /\ adv_node = NoNode

\* Node.__init__(scan_entry) for a new scan entry: the advertising data are
\* parsed and the exception of the parser is raised again
Node_new(advertising_data) ==
    /\ adv_out = NoDescriptor
    /\ adv_in' = advertising_data
    /\ adv_out' = parse(advertising_data)
    /\ adv_node' = IF parse(advertising_data).exc = "none"
                   THEN [built |-> TRUE,
                         advertising_data |-> parse(advertising_data)]
                   ELSE NoNode
    /\ UNCHANGED notAdvVars

\* the scan entry is done with
Node_discard ==
    /\ adv_out # NoDescriptor
    /\ adv_in' = [present |-> FALSE, bytes |-> <<>>]
    /\ adv_out' = NoDescriptor
    /\ adv_node' = NoNode
    /\ UNCHANGED notAdvVars

AdvNext ==
    \/ \E a \in AdvData : Node_new(a)
    \/ Node_discard

\* C26: parsing gives a descriptor only when the manufacturer specific data
\* are there, their length plus one is 7 or 13 and the protocol version is
\* supported; in every other case it fails with the invalid advertising
\* data exception, there is no descriptor, and a Node being built from the
\* scan entry is not built.
C26_ParseAllOrNothing ==
    LET well_formed ==
            /\ adv_in.present
            /\ Len(adv_in.bytes) + 1 \in {7, 13}
            /\ adv_in.bytes[1] = 1
    IN  /\ adv_out.exc = "none" <=> (well_formed \/ adv_out = NoDescriptor)
        /\ ~well_formed /\ adv_out # NoDescriptor =>
               /\ adv_out = InvalidAdvertisingData
               /\ ~adv_node.built

\* data of a supported length with protocol version 2: no descriptor and
\* no node
C26_Witness ==
    /\ adv_in.present
    /\ Len(adv_in.bytes) = 12
    /\ adv_in.bytes[1] = 2
    /\ adv_out = InvalidAdvertisingData
    /\ ~adv_node.built

\* C28: a device-type byte with the high bit set is decoded to itself and
\* the device type is NUCLEO; a device-type byte with the high bit clear is
\* decoded to its low 5 bits.
C28_DeviceIdDecoding ==
    adv_out.exc = "none" /\ adv_out # NoDescriptor =>
        LET b == adv_in.bytes[2]
        IN  /\ b >= 128 => adv_out.device_id = b
                           /\ adv_out.device_type = "NUCLEO"
            /\ b < 128 => adv_out.device_id = b % 32

\* the byte 0x82 decoded to 0x82, a NUCLEO
C28_Witness ==
    /\ adv_out.exc = "none"
    /\ adv_in.present
    /\ adv_in.bytes[2] = 130
    /\ adv_out.device_id = 130
    /\ adv_out.device_type = "NUCLEO"

(***************************************************************************)
(* Discovery: Manager.discover, _ScannerDelegate.handleDiscovery and       *)
(* Manager._add_node, with one ManagerListener.                            *)
(***************************************************************************)
\* scan entries handled in one discovery
MaxScanEntries == 4

Addresses == {"A", "B", "C"}

\* advertising data of the scan entries: none and an unsupported protocol
\* version, which do not parse, and two that do
ScanData ==
    {[present |-> FALSE, bytes |-> <<>>],
     [present |-> TRUE, bytes |-> Msd(12, 2, 128)],
     [present |-> TRUE, bytes |-> Msd(12, 1, 128)],
     [present |-> TRUE, bytes |-> Msd(6, 1, 2)]}

NoScanEntry == [addr |-> "", data |-> [present |-> FALSE, bytes |-> <<>>]]

DiscInit ==
    /\ discovered_nodes = <<>>
    /\ is_scanning = FALSE
    /\ scan_alive = FALSE
    /\ node_discovered = <<>>
    /\ disc_last = NoScanEntry
    /\ disc_exc = "none"
    /\ disc_parsed = {}
    /\ disc_invalid = FALSE
    /\ disc_seq = 0

\* Manager.discover, synchronous, up to the start of the scan
discover_begin ==
    /\ ~is_scanning
    /\ discovered_nodes' = <<>>
    /\ is_scanning' = TRUE
    /\ scan_alive' = TRUE
    /\ node_discovered' = <<>>
    /\ disc_last' = NoScanEntry
    /\ disc_exc' = "none"
    /\ disc_parsed' = {}
    /\ disc_invalid' = FALSE
    /\ disc_seq' = 0
    /\ UNCHANGED notDiscVars

\* Manager.discover, from the return of the scan on
discover_end ==
    /\ is_scanning
    /\ scan_alive
    /\ is_scanning' = FALSE
    /\ scan_alive' = FALSE
    /\ UNCHANGED <<discovered_nodes, node_discovered, disc_last, disc_exc,
                   disc_parsed, disc_invalid, disc_seq>>
    /\ UNCHANGED notDiscVars

\* Manager.discover when scanner.scan raises BTLEException: the handler of
\* discover raises BlueSTInvalidOperationException in its place
discover_scan_fails ==
    /\ is_scanning
    /\ scan_alive
    /\ scan_alive' = FALSE
    /\ disc_exc' = "BlueSTInvalidOperationException"
    /\ UNCHANGED <<discovered_nodes, is_scanning, node_discovered, disc_last,
                   disc_parsed, disc_invalid, disc_seq>>
    /\ UNCHANGED notDiscVars

\* a handler that catches nothing
catches_nothing(e) == FALSE

\* except (BlueSTInvalidAdvertisingDataException, BTLEException)
handleDiscovery_catches(e) ==
    e \in {"BlueSTInvalidAdvertisingDataException", "BTLEException"}

\* Manager.get_node_with_tag, as an index in the list (0 = None)
get_node_with_tag(tag) ==
    IF \E i \in 1..Len(discovered_nodes) : discovered_nodes[i].tag = tag
    THEN CHOOSE i \in 1..Len(discovered_nodes) :
             /\ discovered_nodes[i].tag = tag
             /\ \A j \in 1..(i - 1) : discovered_nodes[j].tag # tag
    ELSE 0

\* _ScannerDelegate.handleDiscovery(scan_entry), with Node(scan_entry),
\* Node.update_advertising_data and Manager._add_node
handleDiscovery(scan_entry) ==
    LET known == get_node_with_tag(scan_entry.addr)
        adv == parse(scan_entry.data)
        raised == adv.exc
    IN  /\ is_scanning
        /\ scan_alive
        /\ disc_seq < MaxScanEntries
        /\ disc_seq' = disc_seq + 1
        /\ disc_last' = scan_entry
        /\ disc_invalid' = (disc_invalid \/ raised # "none")
        /\ disc_parsed' = IF raised = "none"
                          THEN disc_parsed \cup {scan_entry.addr}
                          ELSE disc_parsed
        /\ disc_exc' = IF raised # "none" /\ ~handleDiscovery_catches(raised)
                       THEN raised ELSE "none"
        /\ scan_alive' = (disc_exc' = "none")
        /\ IF raised # "none"
           THEN UNCHANGED <<discovered_nodes, node_discovered>>
           ELSE IF known # 0
           THEN /\ discovered_nodes' =
                       [discovered_nodes EXCEPT ![known].advertising_data = adv]
                /\ UNCHANGED node_discovered
           ELSE /\ discovered_nodes' =
                       Append(discovered_nodes,
                              [tag |-> scan_entry.addr,
                               advertising_data |-> adv])
                /\ node_discovered' =
                       Append(node_discovered, scan_entry.addr)
        /\ UNCHANGED is_scanning
        /\ UNCHANGED notDiscVars

DiscNext ==
    \/ discover_begin
    \/ discover_end
    \/ discover_scan_fails
    \/ \E a \in Addresses, data \in ScanData :
           handleDiscovery([addr |-> a, data |-> data])

\* tags of the nodes in the list of the Manager
discovered_tags ==
    {discovered_nodes[i].tag : i \in 1..Len(discovered_nodes)}

C37_NotDiscoveringAfterScanFailure ==
    disc_exc = "BlueSTInvalidOperationException" => ~is_scanning

MaxCrcUpdates == 2

\* STM32Crc32.INITIAL_VALUE, 0xffffffff
INITIAL_VALUE == <<15, 15, 15, 15, 15, 15, 15, 15>>

\* STM32Crc32.CRC_TABLE
CRC_TABLE ==
    <<<<0, 0, 0, 0, 0, 0, 0, 0>>,
      <<0, 4, 12, 1, 1, 13, 11, 7>>,
      <<0, 9, 8, 2, 3, 11, 6, 14>>,
      <<0, 13, 4, 3, 2, 6, 13, 9>>,
      <<1, 3, 0, 4, 7, 6, 13, 12>>,
      <<1, 7, 12, 5, 6, 11, 6, 11>>,
      <<1, 10, 8, 6, 4, 13, 11, 2>>,
      <<1, 14, 4, 7, 5, 0, 0, 5>>,
      <<2, 6, 0, 8, 14, 13, 11, 8>>,
      <<2, 2, 12, 9, 15, 0, 0, 15>>,
      <<2, 15, 8, 10, 13, 6, 13, 6>>,
      <<2, 11, 4, 11, 12, 11, 6, 1>>,
      <<3, 5, 0, 12, 9, 11, 6, 4>>,
      <<3, 1, 12, 13, 8, 6, 13, 3>>,
      <<3, 12, 8, 14, 10, 0, 0, 10>>,
      <<3, 8, 4, 15, 11, 13, 11, 13>>>>

\* a ^ b on hexadecimal digits
xor4(a, b) ==
    ((a + b) % 2)
    + 2 * (((a \div 2) + (b \div 2)) % 2)
    + 4 * (((a \div 4) + (b \div 4)) % 2)
    + 8 * (((a \div 8) + (b \div 8)) % 2)

\* a ^ b on 32 bit values
xor32(a, b) == [i \in 1..8 |-> xor4(a[i], b[i])]

\* ((crc << 4) & 0xffffffff) ^ CRC_TABLE[_urs(crc, 28)]
crc_round(crc) ==
    xor32([i \in 1..8 |-> IF i < 8 THEN crc[i + 1] ELSE 0],
          CRC_TABLE[crc[1] + 1])

\* STM32Crc32._crc32_fast: eight rounds on crc ^ data
crc32_fast(crc, data) ==
    crc_round(crc_round(crc_round(crc_round(
    crc_round(crc_round(crc_round(crc_round(xor32(crc, data)))))))))

\* the 32 bit value of data[start : start + 4], little endian
word_at(data, start) ==
    <<data[start + 4] \div 16, data[start + 4] % 16,
      data[start + 3] \div 16, data[start + 3] % 16,
      data[start + 2] \div 16, data[start + 2] % 16,
      data[start + 1] \div 16, data[start + 1] % 16>>

\* LittleEndian.bytesToInt32(data, i * 4)
word_offset(i) == i * 4

\* the loop of STM32Crc32.update from index i on; struct.unpack fails on a
\* slice shorter than four bytes
RECURSIVE update_words(_, _, _)
update_words(crc, data, i) ==
    IF i >= Len(data)
    THEN [crc |-> crc, exc |-> "none"]
    ELSE IF word_offset(i) + 4 > Len(data)
    THEN [crc |-> crc, exc |-> "struct.error"]
    ELSE update_words(crc32_fast(crc, word_at(data, word_offset(i))),
                      data, i + 4)

\* len(data) % 4 != 0 raises ValueError
crc_length_ok(n) == n % 4 = 0

\* STM32Crc32.update(data) on the value crc
crc_update(crc, data) ==
    IF ~crc_length_ok(Len(data))
    THEN [crc |-> crc, exc |-> "ValueError"]
    ELSE update_words(crc, data, 0)

\* the loop of FirmwareFile.get_crc_32: four bytes read, one update
RECURSIVE file_words(_, _, _, _)
file_words(crc, file, i, tmp_size) ==
    IF i >= tmp_size
    THEN [crc |-> crc, exc |-> "none"]
    ELSE LET data == SubSeq(file, i + 1, Min(i + 4, Len(file)))
             r == crc_update(crc, data)
         IN  IF Len(data) # 4
             THEN [crc |-> crc, exc |-> "ValueError"]
             ELSE IF r.exc # "none"
             THEN r
             ELSE file_words(r.crc, file, i + 4, tmp_size)

\* FirmwareFile.get_crc_32 of a file with this content, whose size was
\* taken when the FirmwareFile was made
file_crc_32(file) ==
    file_words(INITIAL_VALUE, file, 0, Len(file) - (Len(file) % 4))

CrcBytes1 == <<1, 2, 3, 4, 5, 6, 7, 8>>
CrcBytes2 == <<255, 0, 128, 16, 9, 9, 9, 9>>

\* the inputs: prefixes of two byte strings, and their second words
CrcInputs ==
    {SubSeq(CrcBytes1, 1, n) : n \in 0..8}
        \cup {SubSeq(CrcBytes2, 1, n) : n \in 0..8}
        \cup {SubSeq(CrcBytes1, 5, 8), SubSeq(CrcBytes2, 5, 8)}

CrcInit ==
    /\ current_crc = INITIAL_VALUE
    /\ crc_op = "none"
    /\ crc_in = <<>>
    /\ crc_exc = "none"
    /\ crc_ret = <<>>
    /\ crc_before = INITIAL_VALUE
    /\ crc_updates = 0

\* STM32Crc32.reset
Crc_reset ==
    /\ crc_op # "none"
    /\ current_crc' = INITIAL_VALUE
    /\ crc_op' = "none"
    /\ crc_in' = <<>>
    /\ crc_exc' = "none"
    /\ crc_ret' = <<>>
    /\ crc_before' = INITIAL_VALUE
    /\ crc_updates' = 0
    /\ UNCHANGED notCrcVars

\* STM32Crc32.update(data)
Crc_update(data) ==
    LET r == crc_update(current_crc, data)
    IN  /\ crc_updates < MaxCrcUpdates
        /\ crc_op \in {"none", "update"}
        /\ crc_exc = "none"
        /\ crc_updates' = crc_updates + 1
        /\ crc_op' = "update"
        /\ crc_in' = data
        /\ crc_before' = current_crc
        /\ current_crc' = r.crc
        /\ crc_exc' = r.exc
        /\ crc_ret' = <<>>
        /\ UNCHANGED notCrcVars

\* FirmwareFile.get_crc_32(), as FirmwareUpgradeNucleo.load_file calls it
\* at the start of an upload; it works on a STM32Crc32 of its own
File_get_crc_32(file) ==
    LET r == file_crc_32(file)
    IN  /\ crc_op = "none"
        /\ crc_op' = "get_crc_32"
        /\ crc_in' = file
        /\ crc_exc' = r.exc
        /\ crc_ret' = IF r.exc = "none" THEN r.crc ELSE <<>>
        /\ UNCHANGED <<current_crc, crc_before, crc_updates>>
        /\ UNCHANGED notCrcVars

CrcNext ==
    \/ Crc_reset
    \/ \E data \in CrcInputs : Crc_update(data)
    \/ \E file \in CrcInputs : File_get_crc_32(file)

\* C29: the CRC32 of an input whose length is not a multiple of 4 fails
\* with the length error (ValueError), both in STM32Crc32.update and in
\* FirmwareFile.get_crc_32, the CRC of the whole file at the start of an
\* upload.
C29_LengthNotMultipleOf4Fails ==
    (crc_op \in {"update", "get_crc_32"} /\ Len(crc_in) % 4 # 0) =>
        crc_exc = "ValueError"

\* C39: update is word-sequential: one update with a followed by b, both
\* of a length that is a multiple of 4, raises nothing and leaves the CRC
\* that update(a) followed by update(b) leaves; checked on the two-word
\* inputs, a and b being the two words.
C39_UpdateWordSequential ==
    (crc_op = "update" /\ Len(crc_in) = 8) =>
        LET a == SubSeq(crc_in, 1, 4)
            b == SubSeq(crc_in, 5, 8)
            after_a == crc_update(crc_before, a)
            after_b == crc_update(after_a.crc, b)
        IN  /\ after_a.exc = "none"
            /\ after_b.exc = "none"
            /\ crc_exc = "none"
            /\ current_crc = after_b.crc

(***************************************************************************)
(* Asynchronous discovery: Manager.start_discovery and stop_discovery on   *)
(* one thread, _StoppableScanner.run on the scanner thread.  Every step    *)
(* is one statement of the code, so that the two threads interleave as     *)
(* they can.                                                               *)
(***************************************************************************)
\* scanner.process calls counted after a stop request
MaxAfterStop == 3

ScanInit ==
    /\ sc_is_scanning = FALSE
    /\ stop_called = FALSE
    /\ process_done = FALSE
    /\ sc_exc = "unset"
    /\ thread_pc = "none"
    /\ caller_pc = "idle"
    /\ sc_result = "none"
    /\ sc_stop_requested = FALSE
    /\ sc_after_stop = 0

\* Manager.start_discovery: _StoppableScanner(show_warnings) and start()
start_discovery ==
    /\ caller_pc = "idle"
    /\ IF sc_is_scanning
       THEN /\ sc_result' = "False"
            /\ UNCHANGED <<sc_is_scanning, stop_called, process_done, sc_exc,
                           thread_pc, sc_stop_requested, sc_after_stop>>
       ELSE /\ sc_is_scanning' = TRUE
            /\ stop_called' = FALSE
            /\ process_done' = FALSE
            /\ sc_exc' = "unset"
            /\ thread_pc' = "started"
            /\ sc_result' = "True"
            /\ sc_stop_requested' = FALSE
            /\ sc_after_stop' = 0
    /\ UNCHANGED caller_pc
    /\ UNCHANGED notScanVars

\* run: self._stop_called.clear()
run_clear_stop_called ==
    /\ thread_pc = "started"
    /\ stop_called' = FALSE
    /\ thread_pc' = "run_stop_cleared"
    /\ UNCHANGED <<sc_is_scanning, process_done, sc_exc, caller_pc, sc_result,
                   sc_stop_requested, sc_after_stop>>
    /\ UNCHANGED notScanVars

\* run: self._process_done.clear()
run_clear_process_done ==
    /\ thread_pc = "run_stop_cleared"
    /\ process_done' = FALSE
    /\ thread_pc' = "run_done_cleared"
    /\ UNCHANGED <<sc_is_scanning, stop_called, sc_exc, caller_pc, sc_result,
                   sc_stop_requested, sc_after_stop>>
    /\ UNCHANGED notScanVars

\* run: scanner.clear(), self._exc = None, scanner.start(passive=False);
\* start raises BTLEException or not
run_start(raises) ==
    /\ thread_pc = "run_done_cleared"
    /\ sc_exc' = IF raises THEN "exc_info" ELSE "None"
    /\ thread_pc' = IF raises THEN "ended" ELSE "loop"
    /\ UNCHANGED <<sc_is_scanning, stop_called, process_done, caller_pc,
                   sc_result, sc_stop_requested, sc_after_stop>>
    /\ UNCHANGED notScanVars

\* run: scanner.process(1), which raises BTLEException or not
run_process(raises) ==
    /\ thread_pc = "loop"
    /\ sc_after_stop' = IF sc_stop_requested
                        THEN Min(sc_after_stop + 1, MaxAfterStop)
                        ELSE sc_after_stop
    /\ sc_exc' = IF raises THEN "exc_info" ELSE sc_exc
    /\ thread_pc' = IF raises THEN "ended" ELSE "check"
    /\ UNCHANGED <<sc_is_scanning, stop_called, process_done, caller_pc,
                   sc_result, sc_stop_requested>>
    /\ UNCHANGED notScanVars

\* run: if self._stop_called.isSet(): self._process_done.set(); break
run_check_stop_called ==
    /\ thread_pc = "check"
    /\ process_done' = (process_done \/ stop_called)
    /\ thread_pc' = IF stop_called THEN "ended" ELSE "loop"
    /\ UNCHANGED <<sc_is_scanning, stop_called, sc_exc, caller_pc, sc_result,
                   sc_stop_requested, sc_after_stop>>
    /\ UNCHANGED notScanVars

\* Manager.stop_discovery up to self._stop_called.set() in stop()
stop_discovery_call ==
    /\ caller_pc = "idle"
    /\ IF sc_is_scanning
       THEN /\ stop_called' = TRUE
            /\ sc_stop_requested' = TRUE
            /\ caller_pc' = "stop_wait"
            /\ sc_result' = "none"
       ELSE /\ sc_result' = "False"
            /\ UNCHANGED <<stop_called, sc_stop_requested, caller_pc>>
    /\ UNCHANGED <<sc_is_scanning, process_done, sc_exc, thread_pc,
                   sc_after_stop>>
    /\ UNCHANGED notScanVars

\* stop: while not (self._process_done.isSet() or self._exc): pass; one
\* evaluation of the condition that leaves the loop, by its value or by the
\* AttributeError of an attribute that does not exist yet
stop_wait ==
    /\ caller_pc = "stop_wait"
    /\ \/ /\ process_done \/ sc_exc = "exc_info"
          /\ caller_pc' = "stop_scanner"
          /\ UNCHANGED sc_result
       \/ /\ ~process_done
          /\ sc_exc = "unset"
          /\ caller_pc' = "idle"
          /\ sc_result' = "AttributeError"
    /\ UNCHANGED <<sc_is_scanning, stop_called, process_done, sc_exc,
                   thread_pc, sc_stop_requested, sc_after_stop>>
    /\ UNCHANGED notScanVars

\* stop: self._exc = None; scanner.stop(), which raises BTLEException or not
stop_scanner(raises) ==
    /\ caller_pc = "stop_scanner"
    /\ sc_exc' = IF raises THEN "exc_info" ELSE "None"
    /\ caller_pc' = "join"
    /\ UNCHANGED <<sc_is_scanning, stop_called, process_done, thread_pc,
                   sc_result, sc_stop_requested, sc_after_stop>>
    /\ UNCHANGED notScanVars

\* join() once the thread has ended, and the rest of stop_discovery
stop_discovery_return ==
    /\ caller_pc = "join"
    /\ thread_pc = "ended"
    /\ caller_pc' = "idle"
    /\ IF sc_exc = "exc_info"
       THEN /\ sc_result' = "BlueSTInvalidOperationException"
            /\ UNCHANGED sc_is_scanning
       ELSE /\ sc_result' = "True"
            /\ sc_is_scanning' = FALSE
    /\ UNCHANGED <<stop_called, process_done, sc_exc, thread_pc,
                   sc_stop_requested, sc_after_stop>>
    /\ UNCHANGED notScanVars

ScanNext ==
    \/ start_discovery
    \/ run_clear_stop_called
    \/ run_clear_process_done
    \/ \E raises \in BOOLEAN : run_start(raises)
    \/ \E raises \in BOOLEAN : run_process(raises)
    \/ run_check_stop_called
    \/ stop_discovery_call
    \/ stop_wait
    \/ \E raises \in BOOLEAN : stop_scanner(raises)
    \/ stop_discovery_return

\* C30: a stop request on a running asynchronous discovery is seen at the
\* next iteration boundary of the scanner thread: while stop() waits and the
\* thread is in its loop the stop flag is set, at most one processing
\* iteration begins after the request, stop_discovery does not fail, and
\* when it returns is_discovering() is false; in every interleaving with
\* the start-up and the loop of the scanner thread.
C30_StopSeenAtNextIteration ==
    /\ (caller_pc = "stop_wait" /\ thread_pc \in {"loop", "check"}) =>
           stop_called
    /\ sc_after_stop <= 1
    /\ sc_result # "AttributeError"
    /\ (sc_stop_requested /\ caller_pc = "idle" /\ sc_result = "True") =>
           ~sc_is_scanning

(***************************************************************************)
(* Manager: the features decoder table of the device identifiers.          *)
(***************************************************************************)
DeviceIds == {1, 128}
MaskKeys == {1, 2, 3}
FeatureClasses == {"MyFeature", "OtherFeature"}

\* mask-to-features dictionaries given by the application
MaskDics == UNION {[S -> FeatureClasses] : S \in SUBSET MaskKeys \ {{}}}

EmptyDic == [k \in {} |-> "MyFeature"]

\* the keys the loop "mask = 1; for i in range(0, 32): mask = mask << 1"
\* meets, for the keys below 2^31 followed here
single_bit(k) == \E i \in 0..30 : k = 2^i

\* the loop of add_features_to_node: the single-bit keys of the dictionary
\* are put in the decoder and popped from the copy of the dictionary
register_features(dec, dic) ==
    [decoder |->
        [k \in DOMAIN dec \cup {j \in DOMAIN dic : single_bit(j)} |->
            IF k \in DOMAIN dic THEN dic[k] ELSE dec[k]],
     decoder_to_check |-> {k \in DOMAIN dic : ~single_bit(k)}]

MgrInit ==
    /\ features_decoder_dic = [d \in {} |-> EmptyDic]
    /\ legacy_decoder_dic = [d \in {} |-> EmptyDic]
    /\ mgr_op = <<"none", 0, EmptyDic>>
    /\ mgr_exc = "none"

\* the decoder of a device identifier, {} if it has none: decoder = {};
\* self._features_decoder_dic[device_id] = decoder
decoder_of(table, device_id) ==
    IF device_id \in DOMAIN table THEN table[device_id] ELSE EmptyDic

put(table, device_id, dec) ==
    [d \in DOMAIN table \cup {device_id} |->
        IF d = device_id THEN dec ELSE table[d]]

\* blue_st_sdk Manager.add_features_to_node: its first statement is
\* manager.discover(False, SCANNING_TIME_s), and the module has no name
\* "manager"
add_features_to_node(device_id, dic) ==
    /\ mgr_op' = <<"add_features_to_node", device_id, dic>>
    /\ mgr_exc' = "NameError"
    /\ UNCHANGED <<features_decoder_dic, legacy_decoder_dic>>
    /\ UNCHANGED notMgrVars

\* BlueSTSDK Manager.addFeaturesToNode
addFeaturesToNode(device_id, dic) ==
    LET r == register_features(decoder_of(legacy_decoder_dic, device_id), dic)
    IN  /\ mgr_op' = <<"addFeaturesToNode", device_id, dic>>
        /\ legacy_decoder_dic' = put(legacy_decoder_dic, device_id, r.decoder)
        /\ mgr_exc' = IF r.decoder_to_check # {}
                      THEN "InvalidFeatureBitMaskException" ELSE "none"
        /\ UNCHANGED features_decoder_dic
        /\ UNCHANGED notMgrVars

MgrNext ==
    \/ \E d \in DeviceIds, dic \in MaskDics : add_features_to_node(d, dic)
    \/ \E d \in DeviceIds, dic \in MaskDics : addFeaturesToNode(d, dic)

\* C21: add_features_to_node with a dictionary that has a key without
\* exactly one bit set fails with the invalid feature bit mask exception and
\* leaves the decoder table of the device as it was: none of the single-bit
\* entries of the dictionary is registered.
C21_AtomicRegistration ==
    [][(/\ mgr_op'[1] \in {"add_features_to_node", "addFeaturesToNode"}
        /\ \E k \in DOMAIN mgr_op'[3] : ~single_bit(k)) =>
           /\ mgr_exc' \in {"BlueSTInvalidFeatureBitMaskException",
                            "InvalidFeatureBitMaskException"}
           /\ decoder_of(features_decoder_dic', mgr_op'[2]) =
                  decoder_of(features_decoder_dic, mgr_op'[2])
           /\ decoder_of(legacy_decoder_dic', mgr_op'[2]) =
                  decoder_of(legacy_decoder_dic, mgr_op'[2])]_vars

(***************************************************************************)
(* Manager.remove_nodes and reset_discovery on a list of discovered nodes, *)
(* some of them connected.                                                 *)
(***************************************************************************)
\* nodes in the list of the Manager
MaxNodes == 3

RmInit ==
    /\ rm_nodes = <<>>
    /\ rm_scanning = FALSE
    /\ rm_op = "none"
    /\ rm_before = <<>>

\* list.remove(x): the first element equal to x is taken out
list_remove(s, x) ==
    LET i == CHOOSE k \in 1..Len(s) :
                 s[k] = x /\ \A j \in 1..(k - 1) : s[j] # x
    IN  SubSeq(s, 1, i - 1) \o SubSeq(s, i + 1, Len(s))

\* for node in self._discovered_nodes: if not node.is_connected():
\* self._discovered_nodes.remove(node); the iterator of the list holds the
\* index i of the next element and stops when i reaches the current length
RECURSIVE remove_while_iterating(_, _)
remove_while_iterating(nodes, i) ==
    IF i >= Len(nodes)
    THEN nodes
    ELSE LET node == nodes[i + 1]
         IN  IF ~node.connected
             THEN remove_while_iterating(list_remove(nodes, node), i + 1)
             ELSE remove_while_iterating(nodes, i + 1)

\* Manager._add_node of a Node just made from a scan entry
Rm_add_node(tag) ==
    /\ Len(rm_nodes) < MaxNodes
    /\ \A i \in 1..Len(rm_nodes) : rm_nodes[i].tag # tag
    /\ rm_nodes' = Append(rm_nodes, [tag |-> tag, connected |-> FALSE])
    /\ rm_op' = "_add_node"
    /\ rm_before' = rm_nodes
    /\ UNCHANGED rm_scanning
    /\ UNCHANGED notRmVars

\* Node.connect or Node.disconnect of the i-th node of the list
Rm_update_node_status(i) ==
    /\ i \in 1..Len(rm_nodes)
    /\ rm_nodes' = [rm_nodes EXCEPT ![i].connected = ~rm_nodes[i].connected]
    /\ rm_op' = "_update_node_status"
    /\ rm_before' = rm_nodes
    /\ UNCHANGED rm_scanning
    /\ UNCHANGED notRmVars

\* Manager.start_discovery, which leaves a discovery running
Rm_start_discovery ==
    /\ ~rm_scanning
    /\ rm_scanning' = TRUE
    /\ rm_nodes' = <<>>
    /\ rm_op' = "start_discovery"
    /\ rm_before' = rm_nodes
    /\ UNCHANGED notRmVars

\* Manager.remove_nodes
remove_nodes ==
    /\ rm_nodes' = remove_while_iterating(rm_nodes, 0)
    /\ rm_op' = "remove_nodes"
    /\ rm_before' = rm_nodes
    /\ UNCHANGED rm_scanning
    /\ UNCHANGED notRmVars

\* Manager.reset_discovery: stop_discovery if a discovery runs, remove_nodes
reset_discovery ==
    /\ rm_scanning' = FALSE
    /\ rm_nodes' = remove_while_iterating(rm_nodes, 0)
    /\ rm_op' = "reset_discovery"
    /\ rm_before' = rm_nodes
    /\ UNCHANGED notRmVars

RmNext ==
    \/ \E tag \in Addresses : Rm_add_node(tag)
    \/ \E i \in 1..MaxNodes : Rm_update_node_status(i)
    \/ Rm_start_discovery
    \/ remove_nodes
    \/ reset_discovery

\* C31: after remove_nodes or reset_discovery the node list holds exactly
\* the nodes that were connected when it was called, in their order: every
\* node that was not connected is removed, every connected node is kept.
C31_OnlyConnectedNodesKept ==
    rm_op \in {"remove_nodes", "reset_discovery"} =>
        rm_nodes = SelectSeq(rm_before, LAMBDA n : n.connected)

(***************************************************************************)
(* Manager.discover (synchronous) and Manager.start_discovery called by    *)
(* two threads.  Every step is one statement of the code.                  *)
(***************************************************************************)
\* calls accepted by the test of is_discovering()
MaxAccepted == 3

Callers == {1, 2}

DiscoveryKinds == {"discover", "start_discovery"}

StartInit ==
    /\ st_is_scanning = FALSE
    /\ st_pc = [c \in Callers |-> "idle"]
    /\ st_kind = [c \in Callers |-> "none"]
    /\ st_ret = [c \in Callers |-> "none"]
    /\ st_scans = 0
    /\ st_sync_scans = 0
    /\ st_notifications = <<>>
    /\ st_cleared_running = FALSE
    /\ st_accepted = 0

\* if self.is_discovering(): return False
St_test(c, kind) ==
    /\ st_pc[c] = "idle"
    /\ st_kind' = [st_kind EXCEPT ![c] = kind]
    /\ IF st_is_scanning
       THEN /\ st_ret' = [st_ret EXCEPT ![c] = "False"]
            /\ UNCHANGED <<st_pc, st_accepted>>
       ELSE /\ st_accepted < MaxAccepted
            /\ st_accepted' = st_accepted + 1
            /\ st_ret' = [st_ret EXCEPT ![c] = "none"]
            /\ st_pc' = [st_pc EXCEPT ![c] = "clear"]
    /\ UNCHANGED <<st_is_scanning, st_scans, st_sync_scans, st_notifications,
                   st_cleared_running>>
    /\ UNCHANGED notStartVars

\* self._discovered_nodes = []
St_clear(c) ==
    /\ st_pc[c] = "clear"
    /\ st_cleared_running' = (st_cleared_running \/ st_is_scanning)
    /\ st_pc' = [st_pc EXCEPT ![c] = "notify"]
    /\ UNCHANGED <<st_is_scanning, st_kind, st_ret, st_scans, st_sync_scans,
                   st_notifications, st_accepted>>
    /\ UNCHANGED notStartVars

\* self._notify_discovery_change(True)
St_notify(c) ==
    /\ st_pc[c] = "notify"
    /\ st_is_scanning' = TRUE
    /\ st_notifications' = Append(st_notifications, TRUE)
    /\ st_pc' = [st_pc EXCEPT ![c] = "scan"]
    /\ UNCHANGED <<st_kind, st_ret, st_scans, st_sync_scans,
                   st_cleared_running, st_accepted>>
    /\ UNCHANGED notStartVars

\* start_discovery: _StoppableScanner(show_warnings).start() and return True;
\* discover: with lock(self): Scanner().withDelegate(...).scan(timeout_s),
\* entered when no other thread holds the lock of the Manager
St_scan(c) ==
    /\ st_pc[c] = "scan"
    /\ st_scans' = st_scans + 1
    /\ IF st_kind[c] = "start_discovery"
       THEN /\ st_pc' = [st_pc EXCEPT ![c] = "idle"]
            /\ st_ret' = [st_ret EXCEPT ![c] = "True"]
            /\ UNCHANGED st_sync_scans
       ELSE /\ st_sync_scans = 0
            /\ st_sync_scans' = 1
            /\ st_pc' = [st_pc EXCEPT ![c] = "scanning"]
            /\ UNCHANGED st_ret
    /\ UNCHANGED <<st_is_scanning, st_kind, st_notifications,
                   st_cleared_running, st_accepted>>
    /\ UNCHANGED notStartVars

\* discover: the scan returns, self._notify_discovery_change(False),
\* return True
St_scan_end(c) ==
    /\ st_pc[c] = "scanning"
    /\ st_scans' = st_scans - 1
    /\ st_sync_scans' = 0
    /\ st_is_scanning' = FALSE
    /\ st_notifications' = Append(st_notifications, FALSE)
    /\ st_pc' = [st_pc EXCEPT ![c] = "idle"]
    /\ st_ret' = [st_ret EXCEPT ![c] = "True"]
    /\ UNCHANGED <<st_kind, st_cleared_running, st_accepted>>
    /\ UNCHANGED notStartVars

\* Manager.stop_discovery when the scanner thread sees the request: the
\* thread self._scanner_thread ends, self._notify_discovery_change(False)
St_stop_discovery(c) ==
    /\ st_pc[c] = "idle"
    /\ st_is_scanning
    /\ st_scans > st_sync_scans
    /\ st_scans' = st_scans - 1
    /\ st_is_scanning' = FALSE
    /\ st_notifications' = Append(st_notifications, FALSE)
    /\ st_kind' = [st_kind EXCEPT ![c] = "stop_discovery"]
    /\ st_ret' = [st_ret EXCEPT ![c] = "True"]
    /\ UNCHANGED <<st_pc, st_sync_scans, st_cleared_running, st_accepted>>
    /\ UNCHANGED notStartVars

StartNext ==
    \/ \E c \in Callers, kind \in DiscoveryKinds : St_test(c, kind)
    \/ \E c \in Callers : St_clear(c)
    \/ \E c \in Callers : St_notify(c)
    \/ \E c \in Callers : St_scan(c)
    \/ \E c \in Callers : St_scan_end(c)
    \/ \E c \in Callers : St_stop_discovery(c)

\* C32: at most one discovery runs at a time, also when two threads call
\* discover or start_discovery concurrently: never two scans run, the node
\* list is not cleared while a discovery runs, and no discovery-change
\* notification of a start follows another one without a stop in between.
C32_OneDiscoveryAtATime ==
    /\ st_scans <= 1
    /\ ~st_cleared_running
    /\ \A i \in 1..(Len(st_notifications) - 1) :
           ~(st_notifications[i] /\ st_notifications[i + 1])

(***************************************************************************)
(* _ScannerDelegate.handleDiscovery and Manager._add_node, statement by    *)
(* statement, on the scanner threads that Manager.start_discovery starts.  *)
(* lock_for_object(obj) is the lock of the object obj, which its holder    *)
(* may enter again.                                                        *)
(***************************************************************************)
\* list objects assigned to Manager._discovered_nodes
MaxLists == 3

\* length of the node list
MaxListLen == 3

Scanners == {1, 2}

ScanAddresses == {"A", "B"}

AddInit ==
    /\ ad_is_scanning = FALSE
    /\ ad_caller_pc = [c \in Callers |-> "idle"]
    /\ ad_alive = {}
    /\ ad_current = 0
    /\ ad_list = 1
    /\ ad_nodes = <<>>
    /\ ad_lock = [l \in 1..MaxLists |-> 0]
    /\ ad_pc = [t \in Scanners |-> "idle"]
    /\ ad_entry = [t \in Scanners |-> ""]
    /\ ad_copy = [t \in Scanners |-> <<>>]
    /\ ad_locked = [t \in Scanners |-> 0]

\* start_discovery: if self.is_discovering(): return False
Ad_test(c) ==
    /\ ad_caller_pc[c] = "idle"
    /\ IF ad_is_scanning
       THEN UNCHANGED ad_caller_pc
       ELSE /\ ad_list < MaxLists
            /\ ad_caller_pc' = [ad_caller_pc EXCEPT ![c] = "accepted"]
    /\ UNCHANGED <<ad_is_scanning, ad_alive, ad_current, ad_list, ad_nodes,
                   ad_lock, ad_pc, ad_entry, ad_copy, ad_locked>>
    /\ UNCHANGED notAddVars

\* start_discovery: self._discovered_nodes = [], _notify_discovery_change(
\* True), self._scanner_thread = _StoppableScanner(...), start()
Ad_start(c, t) ==
    /\ ad_caller_pc[c] = "accepted"
    /\ t \notin ad_alive
    /\ ad_list < MaxLists
    /\ ad_list' = ad_list + 1
    /\ ad_nodes' = <<>>
    /\ ad_is_scanning' = TRUE
    /\ ad_alive' = ad_alive \cup {t}
    /\ ad_current' = t
    /\ ad_caller_pc' = [ad_caller_pc EXCEPT ![c] = "idle"]
    /\ UNCHANGED <<ad_lock, ad_pc, ad_entry, ad_copy, ad_locked>>
    /\ UNCHANGED notAddVars

\* stop_discovery: the thread self._scanner_thread ends after the
\* scanner.process call it is in, _notify_discovery_change(False)
Ad_stop(c) ==
    /\ ad_caller_pc[c] = "idle"
    /\ ad_is_scanning
    /\ ad_current \in ad_alive
    /\ ad_pc[ad_current] = "idle"
    /\ ad_alive' = ad_alive \ {ad_current}
    /\ ad_is_scanning' = FALSE
    /\ UNCHANGED <<ad_caller_pc, ad_current, ad_list, ad_nodes, ad_lock,
                   ad_pc, ad_entry, ad_copy, ad_locked>>
    /\ UNCHANGED notAddVars

\* the lock of the list object l can be entered by thread t
can_enter(l, t) == ad_lock[l] \in {0, t}

\* handleDiscovery: nodes = manager.get_nodes()[:]
H_get_nodes(t, addr) ==
    /\ t \in ad_alive
    /\ ad_pc[t] = "idle"
    /\ Len(ad_nodes) < MaxListLen
    /\ can_enter(ad_list, t)
    /\ ad_entry' = [ad_entry EXCEPT ![t] = addr]
    /\ ad_copy' = [ad_copy EXCEPT ![t] = ad_nodes]
    /\ ad_pc' = [ad_pc EXCEPT ![t] = "copied"]
    /\ UNCHANGED <<ad_is_scanning, ad_caller_pc, ad_alive, ad_current,
                   ad_list, ad_nodes, ad_lock, ad_locked>>
    /\ UNCHANGED notAddVars

\* handleDiscovery: the loop over the copy, which ends the callback for a
\* known address, and node = Node(scan_entry) otherwise
H_known_or_new(t) ==
    /\ ad_pc[t] = "copied"
    /\ ad_pc' = [ad_pc EXCEPT ![t] = IF InList(ad_copy[t], ad_entry[t])
                                     THEN "idle" ELSE "new_node"]
    /\ UNCHANGED <<ad_is_scanning, ad_caller_pc, ad_alive, ad_current,
                   ad_list, ad_nodes, ad_lock, ad_entry, ad_copy, ad_locked>>
    /\ UNCHANGED notAddVars

\* _add_node: with lock_for_object(self._discovered_nodes)
A_lock(t) ==
    /\ ad_pc[t] = "new_node"
    /\ can_enter(ad_list, t)
    /\ ad_lock' = [ad_lock EXCEPT ![ad_list] = t]
    /\ ad_locked' = [ad_locked EXCEPT ![t] = ad_list]
    /\ ad_pc' = [ad_pc EXCEPT ![t] = "locked"]
    /\ UNCHANGED <<ad_is_scanning, ad_caller_pc, ad_alive, ad_current,
                   ad_list, ad_nodes, ad_entry, ad_copy>>
    /\ UNCHANGED notAddVars

\* old_node is not None, with old_node = self.get_node_with_tag(tag)
tag_found(nodes, tag) == InList(nodes, tag)

\* _add_node: old_node = self.get_node_with_tag(new_node.get_tag()), under
\* the lock of the list that is in _discovered_nodes now; the update of the
\* old node and return False if there is one
A_get_node_with_tag(t) ==
    /\ ad_pc[t] = "locked"
    /\ can_enter(ad_list, t)
    /\ IF tag_found(ad_nodes, ad_entry[t])
       THEN /\ ad_lock' = [ad_lock EXCEPT ![ad_locked[t]] = 0]
            /\ ad_locked' = [ad_locked EXCEPT ![t] = 0]
            /\ ad_pc' = [ad_pc EXCEPT ![t] = "idle"]
       ELSE /\ ad_pc' = [ad_pc EXCEPT ![t] = "not_found"]
            /\ UNCHANGED <<ad_lock, ad_locked>>
    /\ UNCHANGED <<ad_is_scanning, ad_caller_pc, ad_alive, ad_current,
                   ad_list, ad_nodes, ad_entry, ad_copy>>
    /\ UNCHANGED notAddVars

\* _add_node: self._discovered_nodes.append(new_node),
\* _notify_new_node_discovered, return True, the lock is left
A_append(t) ==
    /\ ad_pc[t] = "not_found"
    /\ ad_nodes' = Append(ad_nodes, ad_entry[t])
    /\ ad_lock' = [ad_lock EXCEPT ![ad_locked[t]] = 0]
    /\ ad_locked' = [ad_locked EXCEPT ![t] = 0]
    /\ ad_pc' = [ad_pc EXCEPT ![t] = "idle"]
    /\ UNCHANGED <<ad_is_scanning, ad_caller_pc, ad_alive, ad_current,
                   ad_list, ad_entry, ad_copy>>
    /\ UNCHANGED notAddVars

AddNext ==
    \/ \E c \in Callers : Ad_test(c)
    \/ \E c \in Callers, t \in Scanners : Ad_start(c, t)
    \/ \E c \in Callers : Ad_stop(c)
    \/ \E t \in Scanners, addr \in ScanAddresses : H_get_nodes(t, addr)
    \/ \E t \in Scanners : H_known_or_new(t)
    \/ \E t \in Scanners : A_lock(t)
    \/ \E t \in Scanners : A_get_node_with_tag(t)
    \/ \E t \in Scanners : A_append(t)

\* C38: the node list of the Manager holds at most one Node per tag, in
\* every reachable state and for every interleaving of the callbacks.
C38_OneNodePerTag ==
    \A i, j \in 1..Len(ad_nodes) : ad_nodes[i] = ad_nodes[j] => i = j

(***************************************************************************)
(* Node._available_features over connect / disconnect cycles, for devices  *)
(* that export base feature characteristics, extended feature              *)
(* characteristics and characteristics of user-defined features.           *)
(***************************************************************************)
\* successful connects of one Node
MaxConnects == 3

\* kinds of characteristic UUID: a base feature characteristic, two extended
\* feature characteristics, one that user-defined features may be mapped to
CharKinds == {"base", "extended_1", "extended_2", "external"}

\* the characteristics of a device: up to two, of different UUIDs
AvDevices ==
    {<<>>} \cup {<<k>> : k \in CharKinds}
        \cup {s \in {<<k1, k2>> : k1 \in CharKinds, k2 \in CharKinds} :
                  s[1] # s[2]}

\* nothing recorded yet
NoFeatures == <<-1>>

\* the feature classes, as numbers: a feature of the advertising mask is the
\* number of its bit; FeatureCharacteristic.get_extended_feature_class(uuid)
\* of the two extended characteristics; the class of the user-defined map
get_extended_feature_class(kind) == IF kind = "extended_1" THEN 101 ELSE 102

\* self._external_uuid_to_features_dic[characteristic.uuid]
USER_DEFINED_FEATURE == 201

AvInit ==
    /\ av_chars = <<>>
    /\ av_external = FALSE
    /\ av_features = <<>>
    /\ av_status = "INIT"
    /\ av_first = NoFeatures
    /\ av_connects = 0

\* the features of the advertising mask, from bit 0 up, as
\* _build_available_features appends them
RECURSIVE available_from(_, _)
available_from(mask, i) ==
    IF i > 31 THEN <<>>
    ELSE (IF i \in build_available_features(mask) THEN <<i>> ELSE <<>>)
         \o available_from(mask, i + 1)

\* Node.__init__: _build_available_features
Av_init(chars, mask) ==
    /\ av_status = "INIT"
    /\ av_chars' = chars
    /\ av_features' = available_from(mask, 0)
    /\ av_status' = "IDLE"
    /\ UNCHANGED <<av_external, av_first, av_connects>>
    /\ UNCHANGED notAvVars

\* _build_features_known_uuid(characteristic, [feature_class]):
\* self._available_features.append(feature)
build_features_known_uuid(features, feature_class) ==
    Append(features, feature_class)

\* the loop of connect over the characteristics, from the i-th on, with the
\* list of available features so far
RECURSIVE connect_characteristics(_, _, _, _)
connect_characteristics(chars, i, external, features) ==
    IF i > Len(chars) THEN features
    ELSE connect_characteristics(chars, i + 1, external,
             IF chars[i] = "base"
             THEN features
             ELSE IF chars[i] \in {"extended_1", "extended_2"}
             THEN build_features_known_uuid(
                      features, get_extended_feature_class(chars[i]))
             ELSE IF external
             THEN build_features_known_uuid(features, USER_DEFINED_FEATURE)
             ELSE features)

\* Node.connect(user_defined_features); the connection fails with
\* BTLEException before the characteristics are read, or not
Av_connect(user_defined_features, fail) ==
    /\ av_status = "IDLE"
    /\ av_connects < MaxConnects
    /\ av_external' = (av_external \/ user_defined_features)
    /\ IF fail
       THEN UNCHANGED <<av_features, av_status, av_first, av_connects>>
       ELSE /\ av_features' =
                   connect_characteristics(av_chars, 1, av_external',
                                           av_features)
            /\ av_status' = "CONNECTED"
            /\ av_connects' = av_connects + 1
            /\ av_first' = IF av_first = NoFeatures THEN av_features'
                           ELSE av_first
    /\ UNCHANGED av_chars
    /\ UNCHANGED notAvVars

\* Node.disconnect
Av_disconnect ==
    /\ av_status = "CONNECTED"
    /\ av_status' = "IDLE"
    /\ UNCHANGED <<av_chars, av_external, av_features, av_first, av_connects>>
    /\ UNCHANGED notAvVars

AvNext ==
    \/ \E chars \in AvDevices, mask \in AdvMasks : Av_init(chars, mask)
    \/ \E user_defined_features, fail \in BOOLEAN :
           Av_connect(user_defined_features, fail)
    \/ Av_disconnect

\* C40: the list of available features of a Node has no duplicates and
\* does not grow across reconnections: after every connect / disconnect
\* cycle it holds what it held after the first successful connect.
C40_AvailableFeaturesStable ==
    /\ \A i, j \in 1..Len(av_features) :
           av_features[i] = av_features[j] => i = j
    /\ av_first # NoFeatures => av_features = av_first

(***************************************************************************)
(* Specifications.                                                         *)
(***************************************************************************)
Init == FwInit /\ LockInit /\ FeatInit /\ NodeInit /\ DecInit /\ MgrInit /\ UwInit /\ AdvInit /\ DiscInit /\ CrcInit /\ ScanInit /\ RmInit /\ StartInit /\ AddInit /\ AvInit

SpecFw == Init /\ [][FwNext]_vars

SpecLock == Init /\ [][LockNext]_vars

SpecFeature == Init /\ [][FeatNext]_vars

SpecNode == Init /\ [][NodeNext]_vars

SpecDecode == Init /\ [][DecNext]_vars

SpecManager == Init /\ [][MgrNext]_vars

SpecUnwrap == Init /\ [][UwNext]_vars

SpecParse == Init /\ [][AdvNext]_vars

SpecDiscovery == Init /\ [][DiscNext]_vars

SpecCrc == Init /\ [][CrcNext]_vars

SpecScanner == Init /\ [][ScanNext]_vars

SpecRemove == Init /\ [][RmNext]_vars

SpecStart == Init /\ [][StartNext]_vars

SpecAddNode == Init /\ [][AddNext]_vars

SpecAvailable == Init /\ [][AvNext]_vars

====
